---- MODULE Spec2Model ----
(***************************************************************************)
(* Model of the flow execution engine (FlowEngine in                       *)
(* src/shared/lib/logger.ts): executeFlow, executeNode and the node and    *)
(* action handlers, as a state machine over execution contexts and the     *)
(* activations (frames) of the engine's async functions.  A frame takes    *)
(* one step per stretch of code between two suspension points; frames that *)
(* are not waiting for a callee may step in any order, which covers every  *)
(* interleaving of the branches of a Condition fan-out.                    *)
(***************************************************************************)
EXTENDS Integers, Sequences, FiniteSets, TLC

\* ---------------------------------------------------------------- constants

MAX_FLOW_DEPTH == 5

\* Bound on the number of frames one run may create (guards every call).
MaxFrames == 28

NODE_TRIGGER == "trigger"
NODE_CONDITION == "condition"
NODE_ACTION == "action"
NODE_END == "end"

YES == "yes"
NO == "no"

ACTION_LOG == "LOG"
ACTION_HTTP_REQUEST == "HTTP_REQUEST"
ACTION_SEND_EMAIL == "SEND_EMAIL"
ACTION_CALL_FLOW == "CALL_FLOW"

STATUS_RUNNING == "running"
STATUS_SUCCESS == "success"
STATUS_ERROR == "error"

\* ------------------------------------------------------------------ helpers

Range(s) == {s[i] : i \in 1..Len(s)}

\* Set.add on a JavaScript Set, which keeps insertion order and ignores an
\* element it already holds.
\* C29 mutant: a new element goes to the front.
SetAdd_AtFront(s, x) == IF x \in Range(s) THEN s ELSE <<x>> \o s

SetAdd(s, x) == IF x \in Range(s) THEN s ELSE Append(s, x)

\* Array.filter is SelectSeq and Array.map is a function over the indices.
Map(s, F(_)) == [i \in 1..Len(s) |-> F(s[i])]

\* ---------------------------------------------------------- flow definitions

\* A value JavaScript treats as absent (undefined, null or the empty string).
None == ""

TriggerNode(id, ev) == [id |-> id, type |-> NODE_TRIGGER, data |-> [event |-> ev]]
ConditionNode(id, field, op, val) ==
  [id |-> id, type |-> NODE_CONDITION,
   data |-> [field |-> field, operator |-> op, value |-> val]]
ActionNode(id, atype, cfg) ==
  [id |-> id, type |-> NODE_ACTION, data |-> [type |-> atype, config |-> cfg]]
EndNode(id) == [id |-> id, type |-> NODE_END, data |-> [empty |-> TRUE]]
\* A node as stored without its data object (the nodes column is free JSON).
BareNode(id, type) == [id |-> id, type |-> type, data |-> [missing |-> TRUE]]

HasData(node) == "missing" \notin DOMAIN node.data

Edge(s, t, h) == [source |-> s, target |-> t, sourceHandle |-> h]

Flow(id, active, nodes, edges) ==
  [id |-> id, active |-> active, nodes |-> nodes, edges |-> edges]

LogCfg == [message |-> "m"]
HttpCfg(url) == [url |-> url]
EmailCfg(email) == [email |-> email]
CallCfg(flowId, extra) == [flowId |-> flowId, data |-> extra]

\* ------------------------------------------------------------ payload values

\* Text the engine inspects character by character (field paths, operands) is
\* a sequence of one-character strings; identifiers it only compares are
\* plain strings.  A payload value is a string, a number, a nested object or
\* null; a key an object does not have reads as undefined.
StrVal(chars) == [k |-> "string", s |-> chars]
NumVal(n) == [k |-> "number", n |-> n]
ObjVal(fields) == [k |-> "object", f |-> fields]
NullVal == [k |-> "null"]
UndefinedVal == [k |-> "undefined"]
NaN == [k |-> "NaN"]

DigitChars == <<"0", "1", "2", "3", "4", "5", "6", "7", "8", "9">>
IsDigit(c) == c \in Range(DigitChars)
DigitValue(c) == (CHOOSE i \in 1..Len(DigitChars) : DigitChars[i] = c) - 1
IsSpace(c) == c = " "

RECURSIVE NatToChars(_)
NatToChars(n) ==
  IF n < 10 THEN <<DigitChars[n + 1]>>
  ELSE NatToChars(n \div 10) \o <<DigitChars[(n % 10) + 1]>>

ObjectObjectChars ==
  <<"[", "o", "b", "j", "e", "c", "t", " ", "O", "b", "j", "e", "c", "t", "]">>

\* String(v) of JavaScript, on the values of the model.
String(v) ==
  CASE v.k = "string" -> v.s
    [] v.k = "number" -> IF v.n < 0 THEN <<"-">> \o NatToChars(-v.n)
                         ELSE NatToChars(v.n)
    [] v.k = "object" -> ObjectObjectChars
    [] v.k = "null" -> <<"n", "u", "l", "l">>
    [] OTHER -> <<"u", "n", "d", "e", "f", "i", "n", "e", "d">>

\* String.prototype.trim.
RECURSIVE TrimLeft(_)
TrimLeft(s) == IF s # <<>> /\ IsSpace(Head(s)) THEN TrimLeft(Tail(s)) ELSE s
RECURSIVE TrimRight(_)
TrimRight(s) ==
  IF s # <<>> /\ IsSpace(s[Len(s)]) THEN TrimRight(SubSeq(s, 1, Len(s) - 1))
  ELSE s
Trim(s) == TrimRight(TrimLeft(s))

RECURSIVE DigitsToNat(_, _)
DigitsToNat(s, acc) ==
  IF s = <<>> THEN acc ELSE DigitsToNat(Tail(s), acc * 10 + DigitValue(Head(s)))

AllDigits(s) == s # <<>> /\ \A i \in 1..Len(s) : IsDigit(s[i])

\* Number(v) of JavaScript, on the values of the model: a number is itself,
\* a string is trimmed and read as a decimal integer (the empty string is
\* 0), anything else that is not all digits is NaN.
Number(v) ==
  CASE v.k = "number" -> v
    [] v.k = "null" -> NumVal(0)
    [] v.k = "string" ->
         LET t == Trim(v.s) IN
         IF t = <<>> THEN NumVal(0)
         ELSE IF AllDigits(t) THEN NumVal(DigitsToNat(t, 0))
         ELSE IF Head(t) \in {"-", "+"} /\ AllDigits(Tail(t))
              THEN NumVal((IF Head(t) = "-" THEN -1 ELSE 1) * DigitsToNat(Tail(t), 0))
         ELSE NaN
    [] OTHER -> NaN

isNaN(v) == v.k = "NaN"

\* String.prototype.startsWith and String.prototype.includes.
StartsWith(s, prefix) ==
  Len(prefix) <= Len(s) /\ SubSeq(s, 1, Len(prefix)) = prefix
Includes(s, part) ==
  \E i \in 1..(Len(s) - Len(part) + 1) : SubSeq(s, i, i + Len(part) - 1) = part

\* The characters of a key joined into the property name they spell.
RECURSIVE JoinChars(_)
JoinChars(chars) ==
  IF chars = <<>> THEN "" ELSE Head(chars) \o JoinChars(Tail(chars))

\* String.prototype.split('.'): the keys of a dotted path, as property names.
RECURSIVE SplitDots(_, _)
SplitDots(s, cur) ==
  IF s = <<>> THEN <<JoinChars(cur)>>
  ELSE IF Head(s) = "." THEN <<JoinChars(cur)>> \o SplitDots(Tail(s), <<>>)
  ELSE SplitDots(Tail(s), Append(cur, Head(s)))

\* ------------------------------------------------------------ pure functions

DATA_PREFIX == <<"d", "a", "t", "a", ".">>

EQUALS == "EQUALS"
NOT_EQUALS == "NOT_EQUALS"
CONTAINS == "CONTAINS"
GREATER_THAN == "GREATER_THAN"
LESS_THAN == "LESS_THAN"

\* One entry of a result's errors list: the message's kind, the node or flow
\* it names, and the message of the exception it wraps (None if none).
Err(kind, at, cause) == [kind |-> kind, at |-> at, cause |-> cause]

RECURSIVE WalkKeys(_, _)
WalkKeys(current, keys) ==
  IF keys = <<>> THEN current
  ELSE IF current.k \in {"null", "undefined"} THEN UndefinedVal
  ELSE IF current.k # "object" THEN UndefinedVal
  ELSE IF Head(keys) \in DOMAIN current.f
       THEN WalkKeys(current.f[Head(keys)], Tail(keys))
       ELSE WalkKeys(UndefinedVal, Tail(keys))

\* getNestedValue(obj, path): obj is the payload object, path a dotted path.
getNestedValue(obj, path) ==
  IF path = <<>> THEN UndefinedVal ELSE WalkKeys(ObjVal(obj), SplitDots(path, <<>>))

FieldBlank(condition) ==
  \/ "field" \notin DOMAIN condition
  \/ condition.field = <<>>
  \/ Trim(condition.field) = <<>>

\* String(v) and Number(v) convert an object through its toString and
\* valueOf: an object of the payload with a key "toString" of its own hides
\* Object.prototype.toString behind a value that cannot be called, and the
\* conversion throws a TypeError.
ToPrimitiveThrows(v) == v.k = "object" /\ "toString" \in DOMAIN v.f

\* C24 mutant: only undefined counts as not found.
NotFound_UndefinedOnly(fieldValue) == fieldValue.k = "undefined"

\* fieldValue === undefined || fieldValue === null
NotFound(fieldValue) == fieldValue.k \in {"undefined", "null"}

\* ------------------------------------------------------ interpolateVariables

\* The index of the first "}" of s at or after position i, or 0.
RECURSIVE FirstClose(_, _)
FirstClose(s, i) ==
  IF i > Len(s) THEN 0
  ELSE IF s[i] = "}" THEN i
  ELSE FirstClose(s, i + 1)

\* C30 mutant: a placeholder that does not resolve is dropped.
Substitute_DropsUnresolved(match, path, data) ==
  LET value == getNestedValue(data, Trim(path))
  IN IF NotFound(value) THEN [threw |-> FALSE, s |-> <<>>]
     ELSE IF ToPrimitiveThrows(value) THEN [threw |-> TRUE, s |-> <<>>]
     ELSE [threw |-> FALSE, s |-> String(value)]

\* The replacer given to template.replace: the text that takes the place of
\* one match, or the TypeError of String(value).
Substitute(match, path, data) ==
  LET value == getNestedValue(data, Trim(path))
  IN IF NotFound(value) THEN [threw |-> FALSE, s |-> match]
     ELSE IF ToPrimitiveThrows(value) THEN [threw |-> TRUE, s |-> <<>>]
     ELSE [threw |-> FALSE, s |-> String(value)]

\* template.replace(VARIABLE_PATTERN, replacer) with VARIABLE_PATTERN =
\* /\{\{([^}]+)\}\}/g: the matches are found from left to right; one starts
\* at "{{", runs over one or more characters other than "}" and ends at
\* "}}"; what a replacer returns is not scanned again.
RECURSIVE ReplaceAll(_, _)
ReplaceAll(s, data) ==
  IF s = <<>> THEN [threw |-> FALSE, s |-> <<>>]
  ELSE LET close == FirstClose(s, 3)
           matches == /\ Len(s) >= 5
                      /\ s[1] = "{" /\ s[2] = "{"
                      /\ close > 3
                      /\ close < Len(s)
                      /\ s[close + 1] = "}"
       IN IF matches
          THEN LET head == Substitute(SubSeq(s, 1, close + 1),
                                      SubSeq(s, 3, close - 1), data)
                   rest == ReplaceAll(SubSeq(s, close + 2, Len(s)), data)
               IN [threw |-> head.threw \/ rest.threw, s |-> head.s \o rest.s]
          ELSE LET rest == ReplaceAll(Tail(s), data)
               IN [threw |-> rest.threw, s |-> <<Head(s)>> \o rest.s]

\* interpolateVariables(template, data), for a template that is a string:
\* the empty template is returned as it is.
interpolateVariables(template, data) ==
  IF template = <<>> THEN template ELSE ReplaceAll(template, data).s

interpolateVariablesThrows(template, data) ==
  template # <<>> /\ ReplaceAll(template, data).threw

\* C19 mutant: every condition is met.
evaluateCondition_AlwaysMet(condition, data) == TRUE

evaluateCondition(condition, data) ==
  IF FieldBlank(condition) THEN FALSE
  ELSE
    LET trimmed == Trim(condition.field)
        fieldPath == IF StartsWith(trimmed, DATA_PREFIX)
                     THEN SubSeq(trimmed, Len(DATA_PREFIX) + 1, Len(trimmed))
                     ELSE trimmed
        fieldValue == getNestedValue(data, fieldPath)
        conditionValue == condition.value
        numValue == Number(fieldValue)
        numCondition == Number(conditionValue)
    IN IF NotFound(fieldValue) THEN FALSE
       ELSE CASE condition.operator = EQUALS ->
                   String(fieldValue) = String(conditionValue)
              [] condition.operator = NOT_EQUALS ->
                   String(fieldValue) # String(conditionValue)
              [] condition.operator = CONTAINS ->
                   Includes(String(fieldValue), String(conditionValue))
              [] condition.operator = GREATER_THAN ->
                   ~isNaN(numValue) /\ ~isNaN(numCondition)
                     /\ numValue.n > numCondition.n
              [] condition.operator = LESS_THAN ->
                   ~isNaN(numValue) /\ ~isNaN(numCondition)
                     /\ numValue.n < numCondition.n
              [] OTHER -> FALSE

\* evaluateCondition throws where one of the five operators converts a field
\* value that has no primitive form.
evaluateConditionThrows(condition, data) ==
  IF FieldBlank(condition) THEN FALSE
  ELSE \E trimmed \in {Trim(condition.field)} :
         \E fieldPath \in {IF StartsWith(trimmed, DATA_PREFIX)
                            THEN SubSeq(trimmed, Len(DATA_PREFIX) + 1, Len(trimmed))
                            ELSE trimmed} :
           \E fieldValue \in {getNestedValue(data, fieldPath)} :
             /\ ~NotFound(fieldValue)
             /\ condition.operator \in
                  {EQUALS, NOT_EQUALS, CONTAINS, GREATER_THAN, LESS_THAN}
             /\ ToPrimitiveThrows(fieldValue)

\* C21 mutant: the successors are returned in reverse edge order.
getNextNodes_Reversed(nodeId, flow) ==
  LET edges == SelectSeq(flow.edges, LAMBDA e : e.source = nodeId)
      targets == SelectSeq(Map(edges, LAMBDA e : e.target), LAMBDA t : t # None)
  IN [i \in 1..Len(targets) |-> targets[Len(targets) + 1 - i]]

\* getNextNodes(nodeId, flow): the targets of the node's outgoing edges, in
\* edge order, without the absent ones.
getNextNodes(nodeId, flow) ==
  LET edges == SelectSeq(flow.edges, LAMBDA e : e.source = nodeId)
  IN SelectSeq(Map(edges, LAMBDA e : e.target), LAMBDA t : t # None)

\* flow.nodes.find(n => n.id === nodeId): the index of the first such node,
\* 0 if there is none.
FindNode(flow, nodeId) ==
  IF \E i \in 1..Len(flow.nodes) : flow.nodes[i].id = nodeId
  THEN CHOOSE i \in 1..Len(flow.nodes) :
         /\ flow.nodes[i].id = nodeId
         /\ \A j \in 1..(i - 1) : flow.nodes[j].id # nodeId
  ELSE 0

\* flow.nodes.find(node => node.type === NODE_TYPES.TRIGGER), as an index.
FindTrigger(flow) ==
  IF \E i \in 1..Len(flow.nodes) : flow.nodes[i].type = NODE_TRIGGER
  THEN CHOOSE i \in 1..Len(flow.nodes) :
         /\ flow.nodes[i].type = NODE_TRIGGER
         /\ \A j \in 1..(i - 1) : flow.nodes[j].type # NODE_TRIGGER
  ELSE 0

EdgesWithoutHandle(flow, nodeId) ==
  SelectSeq(flow.edges, LAMBDA e : e.source = nodeId /\ e.sourceHandle = None)

RECURSIVE ConditionEdgeErrors(_, _)
ConditionEdgeErrors(flow, conditionNodes) ==
  IF conditionNodes = <<>> THEN <<>>
  ELSE (IF Len(EdgesWithoutHandle(flow, Head(conditionNodes).id)) > 0
        THEN <<Err("EdgeWithoutHandle", Head(conditionNodes).id, None)>>
        ELSE <<>>)
       \o ConditionEdgeErrors(flow, Tail(conditionNodes))

\* C13 mutant: the validator does not count the Trigger nodes.
validateFlow_AnyTriggers(flow) ==
  IF Len(flow.nodes) = 0 THEN <<Err("NoNodes", flow.id, None)>>
  ELSE ConditionEdgeErrors(flow, SelectSeq(flow.nodes, LAMBDA n : n.type = NODE_CONDITION))

\* C11 mutant: the validator reports nothing.
validateFlow_AcceptsAll(flow) == <<>>

validateFlow(flow) ==
  IF Len(flow.nodes) = 0 THEN <<Err("NoNodes", flow.id, None)>>
  ELSE
    LET triggerNodes == SelectSeq(flow.nodes, LAMBDA n : n.type = NODE_TRIGGER)
        conditionNodes == SelectSeq(flow.nodes, LAMBDA n : n.type = NODE_CONDITION)
    IN (IF Len(triggerNodes) = 0 THEN <<Err("NoTrigger", flow.id, None)>>
        ELSE IF Len(triggerNodes) > 1 THEN <<Err("ManyTriggers", flow.id, None)>>
        ELSE <<>>)
       \o ConditionEdgeErrors(flow, conditionNodes)

\* ------------------------------------------------- the flows of the repository

S_whatsapp == <<"w", "h", "a", "t", "s", "a", "p", "p">>
S_website == <<"w", "e", "b", "s", "i", "t", "e">>
S_lead_source ==
  <<"d", "a", "t", "a", ".", "l", "e", "a", "d", ".", "s", "o", "u", "r", "c", "e">>

EV_LEAD == "lead.converted"
EV_OTHER == "order.paid"

URL == "https://example.test/hook"

\* F0 -> F1 -> ... -> F5: a chain of CALL_FLOW actions over distinct flows.
ChainFlow(id, next) ==
  Flow(id, TRUE,
       <<TriggerNode("t", EV_LEAD),
         ActionNode("a", ACTION_CALL_FLOW, CallCfg(next, <<>>)),
         EndNode("e")>>,
       <<Edge("t", "a", None), Edge("a", "e", None)>>)

\* A and B call each other; S calls itself; W calls V, which the validator
\* rejects.
CallerFlow(id, target) ==
  Flow(id, TRUE,
       <<TriggerNode("t", EV_LEAD),
         ActionNode("a", ACTION_CALL_FLOW, CallCfg(target, <<>>)),
         ActionNode("l", ACTION_LOG, LogCfg),
         EndNode("e")>>,
       <<Edge("t", "a", None), Edge("a", "l", None), Edge("l", "e", None)>>)

\* D: a Condition that fans out to x and y on "yes"; x and y both lead to z,
\* z leads back to y (a cycle) and on to the End node.
DiamondFlow ==
  Flow("D", TRUE,
       <<TriggerNode("t", EV_LEAD),
         ConditionNode("c", S_lead_source, EQUALS, StrVal(S_whatsapp)),
         ActionNode("x", ACTION_HTTP_REQUEST, HttpCfg(URL)),
         ActionNode("y", ACTION_LOG, LogCfg),
         ActionNode("z", ACTION_LOG, LogCfg),
         EndNode("e")>>,
       <<Edge("t", "c", None), Edge("t", "c", None),
         Edge("c", "x", YES), Edge("c", "y", YES),
         Edge("x", "z", None), Edge("y", "z", None),
         Edge("z", "y", None), Edge("z", "e", None),
         Edge("c", "e", NO)>>)

\* L: a cycle through a Condition: c -> a -> c.
LoopFlow ==
  Flow("L", TRUE,
       <<TriggerNode("t", EV_LEAD),
         ConditionNode("c", S_lead_source, CONTAINS, StrVal(<<"s">>)),
         ActionNode("a", ACTION_LOG, LogCfg),
         EndNode("e")>>,
       <<Edge("t", "c", None), Edge("c", "a", YES), Edge("c", "a", NO),
         Edge("a", "c", None), Edge("a", "e", None)>>)

\* P calls Q from two sibling actions; Q's HTTP action may fail.  Q reuses
\* the node ids t, a and e of P, has a node q of its own, and listens to
\* another event.
ParentFlow ==
  Flow("P", TRUE,
       <<TriggerNode("t", EV_LEAD),
         ActionNode("a", ACTION_CALL_FLOW, CallCfg("Q", <<>>)),
         ActionNode("b", ACTION_CALL_FLOW, CallCfg("Q", <<>>)),
         EndNode("e")>>,
       <<Edge("t", "a", None), Edge("a", "b", None), Edge("b", "e", None)>>)
ChildFlow ==
  Flow("Q", TRUE,
       <<TriggerNode("t", EV_OTHER),
         ActionNode("a", ACTION_HTTP_REQUEST, HttpCfg(URL)),
         ActionNode("q", ACTION_LOG, LogCfg),
         EndNode("e")>>,
       <<Edge("t", "a", None), Edge("a", "q", None), Edge("q", "e", None)>>)

InactiveFlow ==
  Flow("I", FALSE,
       <<TriggerNode("t", EV_LEAD), ActionNode("l", ACTION_LOG, LogCfg)>>,
       <<Edge("t", "l", None)>>)

\* U: one node per failure the engine handles, in a line after the trigger.
\* A flow whose only action calls the inactive flow I.
DormantCallFlow ==
  Flow("G", TRUE,
       <<TriggerNode("t", EV_LEAD),
         ActionNode("a", ACTION_CALL_FLOW, CallCfg("I", <<>>)),
         ActionNode("b", ACTION_LOG, LogCfg),
         EndNode("e")>>,
       <<Edge("t", "a", None), Edge("a", "b", None), Edge("b", "e", None)>>)

\* A flow that calls K twice, first with configured data that has the
\* payload's key lead, then with data under a key the payload lacks, and
\* tests its own payload afterwards.
MergeFlow ==
  Flow("R", TRUE,
       <<TriggerNode("t", EV_LEAD),
         ActionNode("a", ACTION_CALL_FLOW,
                    CallCfg("K", [lead |-> ObjVal([source |-> StrVal(S_website)])])),
         ActionNode("a2", ACTION_CALL_FLOW,
                    CallCfg("K", [campaign |-> StrVal(<<"x">>)])),
         ConditionNode("c", S_lead_source, EQUALS, StrVal(S_whatsapp)),
         ActionNode("b", ACTION_LOG, LogCfg),
         ActionNode("n", ACTION_LOG, LogCfg)>>,
       <<Edge("t", "a", None), Edge("a", "a2", None), Edge("a2", "c", None),
         Edge("c", "b", YES), Edge("c", "n", NO)>>)

\* The flow R calls: it tests lead.source of the payload it is given.
MergedChildFlow ==
  Flow("K", TRUE,
       <<TriggerNode("t", EV_OTHER),
         ConditionNode("c", S_lead_source, EQUALS, StrVal(S_website)),
         ActionNode("y", ACTION_LOG, LogCfg),
         ActionNode("n", ACTION_LOG, LogCfg)>>,
       <<Edge("t", "c", None), Edge("c", "y", YES), Edge("c", "n", NO)>>)

FaultyFlow ==
  Flow("U", TRUE,
       <<TriggerNode("t", EV_LEAD),
         BareNode("a0", NODE_ACTION),
         ActionNode("a1", "SMS", LogCfg),
         ActionNode("a2", ACTION_SEND_EMAIL, EmailCfg(None)),
         ActionNode("a3", ACTION_CALL_FLOW, CallCfg(None, <<>>)),
         ActionNode("a4", ACTION_CALL_FLOW, CallCfg("ZZ", <<>>)),
         ActionNode("a5", ACTION_CALL_FLOW, CallCfg("I", <<>>)),
         ActionNode("a6", ACTION_HTTP_REQUEST, HttpCfg(None)),
         ActionNode("a7", ACTION_SEND_EMAIL, EmailCfg("ops@example.test")),
         BareNode("cn", NODE_CONDITION),
         ConditionNode("cb", <<" ">>, EQUALS, StrVal(S_whatsapp)),
         ConditionNode("cg", S_lead_source, NOT_EQUALS, StrVal(S_whatsapp)),
         BareNode("u", "custom"),
         EndNode("e")>>,
       <<Edge("t", "a0", None), Edge("a0", "a1", None), Edge("a1", "a2", None),
         Edge("a2", "a3", None), Edge("a3", "a4", None), Edge("a4", "a5", None),
         Edge("a5", "a6", None), Edge("a6", "a7", None), Edge("a7", "ghost", None),
         Edge("t", "cn", None), Edge("cn", "e", YES),
         Edge("t", "cb", None), Edge("cb", "e", NO),
         Edge("t", "cg", None), Edge("cg", "ghost", NO), Edge("cg", "u", YES),
         Edge("u", "e", None)>>)

\* Flows the validator rejects.
NoHandleFlow ==
  Flow("V", TRUE,
       <<TriggerNode("t", EV_LEAD),
         ConditionNode("c", S_lead_source, EQUALS, StrVal(S_whatsapp)),
         EndNode("e")>>,
       <<Edge("t", "c", None), Edge("c", "e", None)>>)
\* H: a Condition with two "yes" edges, one "no" edge and one edge whose
\* handle is neither "yes" nor "no"; a, b and n are reachable through one
\* edge each.
HandleFlow ==
  Flow("H", TRUE,
       <<TriggerNode("t", EV_LEAD),
         ConditionNode("c", S_lead_source, EQUALS, StrVal(S_whatsapp)),
         ActionNode("a", ACTION_LOG, LogCfg),
         ActionNode("b", ACTION_LOG, LogCfg),
         ActionNode("n", ACTION_LOG, LogCfg),
         EndNode("e")>>,
       <<Edge("t", "c", None),
         Edge("c", "a", "maybe"), Edge("c", "b", YES), Edge("c", "e", YES),
         Edge("c", "n", NO),
         Edge("a", "e", None), Edge("b", "e", None), Edge("n", "e", None)>>)

\* M: a Trigger with two successors, c and then b.  The traversal started
\* at c fans out to x, which calls Q, and to y, an HTTP request.  The End
\* node e has an outgoing edge, to k.
SequenceFlow ==
  Flow("M", TRUE,
       <<TriggerNode("t", EV_LEAD),
         ConditionNode("c", S_lead_source, EQUALS, StrVal(S_whatsapp)),
         ActionNode("x", ACTION_CALL_FLOW, CallCfg("Q", <<>>)),
         ActionNode("y", ACTION_HTTP_REQUEST, HttpCfg(URL)),
         ActionNode("b", ACTION_LOG, LogCfg),
         EndNode("e"),
         ActionNode("k", ACTION_LOG, LogCfg)>>,
       <<Edge("t", "c", None), Edge("t", "b", None),
         Edge("c", "x", YES), Edge("c", "y", YES), Edge("c", "y", NO),
         Edge("b", "e", None), Edge("e", "k", None)>>)

\* Y: a Condition with a "yes" edge only.
OnlyYesFlow ==
  Flow("Y", TRUE,
       <<TriggerNode("t", EV_LEAD),
         ConditionNode("c", S_lead_source, EQUALS, StrVal(S_whatsapp)),
         ActionNode("a", ACTION_LOG, LogCfg),
         EndNode("e")>>,
       <<Edge("t", "c", None), Edge("c", "a", YES), Edge("a", "e", None)>>)

EmptyFlow == Flow("N", TRUE, <<>>, <<>>)
TwoTriggerFlow ==
  Flow("T2", TRUE,
       <<TriggerNode("t", EV_LEAD), TriggerNode("t2", EV_LEAD), EndNode("e")>>,
       <<Edge("t", "e", None)>>)
NoTriggerFlow == Flow("T0", TRUE, <<EndNode("e")>>, <<>>)

AllFlows ==
  {ChainFlow("F0", "F1"), ChainFlow("F1", "F2"), ChainFlow("F2", "F3"),
   ChainFlow("F3", "F4"), ChainFlow("F4", "F5"), ChainFlow("F5", "F6"),
   CallerFlow("A", "B"), CallerFlow("B", "A"), CallerFlow("S", "S"),
   CallerFlow("W", "V"), HandleFlow, OnlyYesFlow, SequenceFlow,
   DiamondFlow, LoopFlow, ParentFlow, ChildFlow, InactiveFlow, FaultyFlow,
   DormantCallFlow, MergeFlow, MergedChildFlow,
   NoHandleFlow, EmptyFlow, TwoTriggerFlow, NoTriggerFlow}

FlowIds == {f.id : f \in AllFlows}
FlowById(id) == CHOOSE f \in AllFlows : f.id = id

\* The flows a run may be started with, and the events it may be started on.
TopFlowIds == FlowIds
EventNames == {EV_LEAD, EV_OTHER}
Payloads ==
  {[lead |-> ObjVal([source |-> StrVal(S_whatsapp)])],
   [lead |-> ObjVal([source |-> StrVal(S_website)])]}

\* -------------------------------------------------------------------- state

VARIABLES
  ctx,     \* the execution contexts created so far, in creation order
  frames,  \* the activations of executeFlow and executeNode: the call tree
  logs,    \* the execution-log records of the log repository
  events   \* the webhook events of the webhook repository

vars == <<ctx, frames, logs, events>>

NoResult == [returned |-> FALSE, success |-> FALSE, executedNodes |-> <<>>]

\* C6 mutant: every result reports success.
formatResult_AlwaysSuccess(context) ==
  [returned |-> TRUE, success |-> TRUE, executedNodes |-> context.executedNodes]

\* C10 mutant: success is decided by the executed nodes, not by the errors.
formatResult_ByNodes(context) ==
  [returned |-> TRUE,
   success |-> Len(context.executedNodes) > 0,
   executedNodes |-> context.executedNodes]

\* formatResult(context).  The result's errors is the context's own errors
\* array (the same object), so it is read from the context: ResultErrors.
formatResult(context) ==
  [returned |-> TRUE,
   success |-> Len(context.errors) = 0,
   executedNodes |-> context.executedNodes]

ResultErrors(c) == ctx[c].errors

\* C8 mutant: a nested context starts from the parent's visited set.
NewContext_InheritsVisited(flowId, webhookEvent, parent, cs) ==
  [flow |-> flowId, webhookData |-> webhookEvent,
   executedNodes |-> IF parent # 0 THEN cs[parent].executedNodes ELSE <<>>,
   errors |-> <<>>,
   flowCallStack |-> IF parent # 0 THEN Append(cs[parent].flowCallStack, flowId)
                     ELSE <<flowId>>,
   depth |-> IF parent # 0 THEN cs[parent].depth + 1 ELSE 0,
   parent |-> parent, result |-> NoResult]

\* C9 mutant: a nested context keeps the parent's depth.
NewContext_DepthKept(flowId, webhookEvent, parent, cs) ==
  [flow |-> flowId, webhookData |-> webhookEvent,
   executedNodes |-> <<>>, errors |-> <<>>,
   flowCallStack |-> IF parent # 0 THEN Append(cs[parent].flowCallStack, flowId)
                     ELSE <<flowId>>,
   depth |-> IF parent # 0 THEN cs[parent].depth ELSE 0,
   parent |-> parent, result |-> NoResult]

\* The context executeFlow builds on entry; parent = 0 when none is passed.
NewContext(flowId, webhookEvent, parent, cs) ==
  IF parent # 0
  THEN [flow |-> flowId, webhookData |-> webhookEvent,
        executedNodes |-> <<>>, errors |-> <<>>,
        flowCallStack |-> Append(cs[parent].flowCallStack, flowId),
        depth |-> cs[parent].depth + 1,
        parent |-> parent, result |-> NoResult]
  ELSE [flow |-> flowId, webhookData |-> webhookEvent,
        executedNodes |-> <<>>, errors |-> <<>>,
        flowCallStack |-> <<flowId>>,
        depth |-> 0,
        parent |-> 0, result |-> NoResult]

\* frames maps the path of a call in the call tree (<<1>> is the top-level
\* executeFlow, Append(k, n) the n-th call made by frame k) to its frame.
\* A frame: fn is the function, c its context, node the node id of an
\* executeNode call, pc the place it is suspended at, caller the frame that
\* awaits it (<<>>: the engine's caller), idx the position in a successor
\* loop, st whether it runs, has returned or has thrown, exc the message of
\* the exception in flight, logId the log record of a CALL_FLOW (0: none),
\* raised the message of the last exception raised in the frame (kept after
\* it is caught), ran whether the node passed the visited guard and was
\* dispatched, inCatch whether executeNode is in its catch block, timer the
\* abort timer of an HTTP_REQUEST ("none" before setTimeout, then "pending",
\* "fired" or "cleared").
Frame(fn, c, node, pc, caller) ==
  [fn |-> fn, c |-> c, node |-> node, pc |-> pc, caller |-> caller,
   idx |-> 1, st |-> "running", exc |-> None, raised |-> None, logId |-> 0,
   ran |-> FALSE, inCatch |-> FALSE, timer |-> "none"]

FlowOf(c) == FlowById(ctx[c].flow)
NodeOf(k) == FlowOf(frames[k].c).nodes[FindNode(FlowOf(frames[k].c), frames[k].node)]

Top == <<1>>

Children(k) == {j \in DOMAIN frames : frames[j].caller = k}
ChildrenDone(k) == \A j \in Children(k) : frames[j].st # "running"
ChildThrew(k) == \E j \in Children(k) : frames[j].st = "threw"

Running(k, fn, pc) ==
  /\ frames[k].fn = fn
  /\ frames[k].st = "running"
  /\ frames[k].pc = pc

FrameCount == Cardinality(DOMAIN frames)
CanCall == FrameCount < MaxFrames

\* The call tree after frame k has made the calls in the sequence called.
Call(fs, k, called) ==
  LET n == Cardinality({j \in DOMAIN fs : fs[j].caller = k})
  IN fs @@ [p \in {Append(k, n + i) : i \in 1..Len(called)} |->
              called[p[Len(p)] - n]]

PushError(cs, c, e) == [cs EXCEPT ![c].errors = Append(@, e)]
PushErrors(cs, c, es) == [cs EXCEPT ![c].errors = @ \o es]
Return(fs, k) == [fs EXCEPT ![k].st = "returned", ![k].pc = "done"]
Goto(fs, k, pc) == [fs EXCEPT ![k].pc = pc]
Throw(fs, k, pc, exc) ==
  [fs EXCEPT ![k].pc = pc, ![k].exc = exc, ![k].raised = exc]

WebhookEvent(id, event, data) == [id |-> id, event |-> event, data |-> data]

Init ==
  \E f \in TopFlowIds, ev \in EventNames, data \in Payloads :
    /\ ctx = <<NewContext(f, WebhookEvent("w1", ev, data), 0, <<>>)>>
    /\ frames = (Top :> Frame("executeFlow", 1, None, "start", <<>>))
    /\ logs = <<>>
    /\ events = <<>>

\* -------------------------------------------------------------- executeFlow

\* C5 mutant: the depth guard lets depth MAX_FLOW_DEPTH through.
DepthExceeded_OffByOne(context) == context.depth > MAX_FLOW_DEPTH

DepthExceeded(context) == context.depth >= MAX_FLOW_DEPTH

\* C39 mutant: the loop guard sees only a flow that calls itself directly.
LoopDetected_DirectOnly(context) ==
  /\ Len(context.flowCallStack) > 1
  /\ context.flowCallStack[Len(context.flowCallStack) - 1] = context.flow

\* C4 mutant: the loop guard never fires.
LoopDetected_Never(context) == FALSE

\* flowCallStack.filter(id => id === flow.id).length > 1
LoopDetected(context) ==
  Len(SelectSeq(context.flowCallStack, LAMBDA id : id = context.flow)) > 1

TriggerOf(flow) == flow.nodes[FindTrigger(flow)]

\* C14 mutant: the trigger's event is checked at every depth.
EventChecked_AtAnyDepth(context) == TRUE

\* context.depth === 0: the trigger's event is checked for a run started by
\* a webhook only.
EventChecked(context) == context.depth = 0

\* The message of a recursion guard: it names the flow and the call stack.
StackErr(kind, flowId, stack) ==
  [kind |-> kind, at |-> flowId, cause |-> None, stack |-> stack]

\* The errors executeFlow records before it dispatches any node, in the
\* order of its checks; empty when the traversal is to start.
EntryErrors(context) ==
  LET flow == FlowById(context.flow) IN
  IF DepthExceeded(context)
  THEN <<StackErr("DepthLimit", flow.id, context.flowCallStack)>>
  ELSE IF LoopDetected(context)
  THEN <<StackErr("LoopDetected", flow.id, context.flowCallStack)>>
  ELSE IF validateFlow(flow) # <<>> THEN validateFlow(flow)
  ELSE IF FindTrigger(flow) = 0 THEN <<Err("TriggerMissing", flow.id, None)>>
  ELSE IF EventChecked(context)
          /\ TriggerOf(flow).data.event # context.webhookData.event
       THEN <<Err("EventMismatch", flow.id, None)>>
  ELSE <<>>

\* executeFlow up to one of its early returns.
ExecuteFlowReject(k) ==
  /\ Running(k, "executeFlow", "start")
  /\ LET c == frames[k].c
         es == EntryErrors(ctx[c])
         recorded == PushErrors(ctx, c, es)
     IN /\ es # <<>>
        /\ ctx' = [recorded EXCEPT ![c].result = formatResult(recorded[c])]
        /\ frames' = Return(frames, k)
  /\ UNCHANGED logs
  /\ UNCHANGED events

\* executeFlow up to await this.executeNode(triggerNode.id, flow, context).
ExecuteFlowRun(k) ==
  /\ Running(k, "executeFlow", "start")
  /\ CanCall
  /\ LET c == frames[k].c IN
     /\ EntryErrors(ctx[c]) = <<>>
     /\ frames' = Call(Goto(frames, k, "await"), k,
                       <<Frame("executeNode", c, TriggerOf(FlowOf(c)).id, "entry", k)>>)
  /\ UNCHANGED <<ctx, logs>>
  /\ UNCHANGED events

ThrownBy(k) == CHOOSE j \in Children(k) : frames[j].st = "threw"

\* executeFlow from the end of its try/catch to return formatResult(context).
ExecuteFlowFinish(k) ==
  /\ Running(k, "executeFlow", "await")
  /\ ChildrenDone(k)
  /\ LET c == frames[k].c
         caught == IF ChildThrew(k)
                   THEN PushError(ctx, c,
                          Err("FatalError", ctx[c].flow, frames[ThrownBy(k)].exc))
                   ELSE ctx
     IN /\ ctx' = [caught EXCEPT ![c].result = formatResult(caught[c])]
        /\ frames' = Return(frames, k)
  /\ UNCHANGED logs
  /\ UNCHANGED events

\* -------------------------------------------------------------- executeNode

\* C2 mutant: the visited guard of executeNode never fires.
HasExecuted_Never(context, nodeId) == FALSE

\* context.executedNodes.has(nodeId)
HasExecuted(context, nodeId) == nodeId \in Range(context.executedNodes)

\* C3 mutant: executeNode does not mark the node it dispatches.
MarkExecuted_Forgets(cs, c, nodeId) == cs

\* context.executedNodes.add(nodeId)
MarkExecuted(cs, c, nodeId) == [cs EXCEPT ![c].executedNodes = SetAdd(@, nodeId)]

NodeTypes == {NODE_TRIGGER, NODE_CONDITION, NODE_ACTION, NODE_END}

\* executeNode is entered for a node that was executed already: it returns.
NodeSkip(k) ==
  /\ Running(k, "executeNode", "entry")
  /\ HasExecuted(ctx[frames[k].c], frames[k].node)
  /\ frames' = Return(frames, k)
  /\ UNCHANGED <<ctx, logs>>
  /\ UNCHANGED events

\* executeNode is entered for a node id the flow does not have.
NodeNotFound(k) ==
  /\ Running(k, "executeNode", "entry")
  /\ ~HasExecuted(ctx[frames[k].c], frames[k].node)
  /\ FindNode(FlowOf(frames[k].c), frames[k].node) = 0
  /\ ctx' = PushError(ctx, frames[k].c, Err("NodeNotFound", frames[k].node, None))
  /\ frames' = Return(frames, k)
  /\ UNCHANGED logs
  /\ UNCHANGED events

\* executeNode passes its guards for a node of the given kind; the node is
\* marked executed in the same step, before its handler runs.
Dispatches(k) ==
  /\ Running(k, "executeNode", "entry")
  /\ ~HasExecuted(ctx[frames[k].c], frames[k].node)
  /\ FindNode(FlowOf(frames[k].c), frames[k].node) # 0

Marked(k) == MarkExecuted(ctx, frames[k].c, frames[k].node)
Ran(k) == [frames EXCEPT ![k].ran = TRUE]

\* case NODE_TYPES.TRIGGER: executeTrigger goes on to the successor loop.
RunTrigger(k) ==
  /\ Dispatches(k)
  /\ NodeOf(k).type = NODE_TRIGGER
  /\ ctx' = Marked(k)
  /\ frames' = Goto(Ran(k), k, "next")
  /\ UNCHANGED logs
  /\ UNCHANGED events

\* C22 mutant: an End node advances to its successors.
RunEnd_Advances(k) ==
  /\ Dispatches(k)
  /\ NodeOf(k).type = NODE_END
  /\ ctx' = Marked(k)
  /\ frames' = Goto(Ran(k), k, "next")
  /\ UNCHANGED logs
  /\ UNCHANGED events

\* case NODE_TYPES.END
RunEnd(k) ==
  /\ Dispatches(k)
  /\ NodeOf(k).type = NODE_END
  /\ ctx' = Marked(k)
  /\ frames' = Return(Ran(k), k)
  /\ UNCHANGED logs
  /\ UNCHANGED events

\* C23 mutant: a node of unknown type advances to its successors.
RunUnknown_Advances(k) ==
  /\ Dispatches(k)
  /\ NodeOf(k).type \notin NodeTypes
  /\ ctx' = PushError(Marked(k), frames[k].c,
                      Err("UnknownNodeType", frames[k].node, None))
  /\ frames' = Goto(Ran(k), k, "next")
  /\ UNCHANGED logs
  /\ UNCHANGED events

\* default: a node of unknown type
RunUnknown(k) ==
  /\ Dispatches(k)
  /\ NodeOf(k).type \notin NodeTypes
  /\ ctx' = PushError(Marked(k), frames[k].c,
                      Err("UnknownNodeType", frames[k].node, None))
  /\ frames' = Return(Ran(k), k)
  /\ UNCHANGED logs
  /\ UNCHANGED events

\* C18 mutant: executeCondition follows every outgoing edge of the node.
TargetEdges_AllEdges(flow, node, data) ==
  SelectSeq(flow.edges, LAMBDA e : e.source = node.id)

\* The edges executeCondition follows: those of the node whose sourceHandle
\* is the handle of the evaluation's outcome.
TargetEdges(flow, node, data) ==
  LET conditionMet == evaluateCondition(node.data, data)
      expectedHandle == IF conditionMet THEN YES ELSE NO
  IN SelectSeq(flow.edges,
               LAMBDA e : e.source = node.id /\ e.sourceHandle = expectedHandle)

\* targetNode && targetNode.type
TargetPresent(flow, edge) ==
  /\ FindNode(flow, edge.target) # 0
  /\ flow.nodes[FindNode(flow, edge.target)].type # None

\* case NODE_TYPES.CONDITION: executeCondition up to Promise.all.
RunCondition(k) ==
  /\ Dispatches(k)
  /\ NodeOf(k).type = NODE_CONDITION
  /\ LET c == frames[k].c
         flow == FlowOf(c)
         node == NodeOf(k)
     IN
     IF ~HasData(node)
     THEN \* reading a property of undefined throws a TypeError
          /\ ctx' = Marked(k)
          /\ frames' = Throw(Ran(k), k, "catch", "TypeError")
     ELSE IF FieldBlank(node.data)
     THEN /\ ctx' = PushError(Marked(k), c,
                              Err("ConditionFieldMissing", node.id, None))
          /\ frames' = Return(Ran(k), k)
     ELSE IF evaluateConditionThrows(node.data, ctx[c].webhookData.data)
     THEN /\ ctx' = Marked(k)
          /\ frames' = Throw(Ran(k), k, "catch", "TypeError")
     ELSE
       LET targetEdges == TargetEdges(flow, node, ctx[c].webhookData.data)
           present == SelectSeq(targetEdges, LAMBDA e : TargetPresent(flow, e))
           absent == SelectSeq(targetEdges, LAMBDA e : ~TargetPresent(flow, e))
       IN IF targetEdges = <<>>
          THEN /\ ctx' = Marked(k)
               /\ frames' = Return(Ran(k), k)
          ELSE /\ FrameCount + Len(present) <= MaxFrames
               /\ ctx' = PushErrors(Marked(k), c,
                            Map(absent, LAMBDA e : Err("TargetNotFound", node.id, e.target)))
               /\ frames' = Call(Goto(Ran(k), k, "join"), k,
                                   Map(present, LAMBDA e :
                                     Frame("executeNode", c, e.target, "entry", k)))
  /\ UNCHANGED logs
  /\ UNCHANGED events

\* C20 mutant: the Condition's dispatch returns as soon as one branch has
\* finished.
JoinBranches_FirstBranch(k) ==
  /\ Running(k, "executeNode", "join")
  /\ \E j \in Children(k) : frames[j].st # "running"
  /\ frames' = Return(frames, k)
  /\ UNCHANGED <<ctx, logs>>
  /\ UNCHANGED events

\* await Promise.all(executionPromises): every branch has finished, or one
\* of them has thrown.
JoinBranches(k) ==
  /\ Running(k, "executeNode", "join")
  /\ ChildrenDone(k) \/ ChildThrew(k)
  /\ frames' = IF ChildThrew(k)
               THEN Throw(frames, k, "catch", frames[ThrownBy(k)].exc)
               ELSE Return(frames, k)
  /\ UNCHANGED <<ctx, logs>>
  /\ UNCHANGED events

\* ------------------------------------------------------------ executeAction

ActionTypes == {ACTION_LOG, ACTION_HTTP_REQUEST, ACTION_SEND_EMAIL, ACTION_CALL_FLOW}

\* !actionData || !actionData.type
ActionDataInvalid(node) ==
  \/ ~HasData(node)
  \/ "type" \notin DOMAIN node.data
  \/ node.data.type = None

\* const timeoutId = setTimeout(() => controller.abort(), HTTP_TIMEOUT)
SetTimeout(fs, k) == [fs EXCEPT ![k].timer = "pending"]

\* case NODE_TYPES.ACTION: executeAction up to the first await of the
\* action's handler, or up to the successor loop when there is none.
RunAction(k) ==
  /\ Dispatches(k)
  /\ NodeOf(k).type = NODE_ACTION
  /\ LET c == frames[k].c
         node == NodeOf(k)
     IN
     IF ActionDataInvalid(node)
     THEN /\ ctx' = PushError(Marked(k), c, Err("ActionDataInvalid", node.id, None))
          /\ frames' = Goto(Ran(k), k, "next")
     ELSE IF node.data.type \notin ActionTypes
     THEN /\ ctx' = PushError(Marked(k), c, Err("UnknownActionType", node.id, None))
          /\ frames' = Goto(Ran(k), k, "next")
     ELSE
       /\ ctx' = Marked(k)
       /\ frames' =
            CASE node.data.type = ACTION_LOG -> Goto(Ran(k), k, "next")
              [] node.data.type = ACTION_SEND_EMAIL ->
                   IF node.data.config.email = None
                   THEN Throw(Ran(k), k, "action_catch", "EmailMissing")
                   ELSE Goto(Ran(k), k, "next")
              [] node.data.type = ACTION_HTTP_REQUEST ->
                   IF node.data.config.url = None
                   THEN Throw(Ran(k), k, "action_catch", "UrlMissing")
                   ELSE SetTimeout(Goto(Ran(k), k, "fetch"), k)
              [] node.data.type = ACTION_CALL_FLOW ->
                   IF node.data.config.flowId = None
                   THEN Throw(Ran(k), k, "action_catch", "FlowIdMissing")
                   ELSE Goto(Ran(k), k, "findById")
  /\ UNCHANGED logs
  /\ UNCHANGED events

\* What the awaited fetch may come to: a 2xx response, another status, the
\* abort of the timeout, or a network failure.
HttpOutcomes == {"ok", "status", "timeout", "network"}

\* clearTimeout(timeoutId)
ClearTimeout(fs, k) == [fs EXCEPT ![k].timer = "cleared"]

\* The timer's callback has run: controller.abort().
TimerFired(fs, k) == [fs EXCEPT ![k].timer = "fired"]

\* executeHttpRequestAction from the end of await fetch(...).  A response
\* reaches clearTimeout(timeoutId), whatever its status; the abort is the
\* timer's callback; a fetch that rejects for another reason goes to the
\* catch block, which rethrows and leaves the timer alone.
HttpResponse(k) ==
  /\ Running(k, "executeNode", "fetch")
  /\ \E outcome \in HttpOutcomes :
       frames' = CASE outcome = "ok" -> ClearTimeout(Goto(frames, k, "next"), k)
                   [] outcome = "status" ->
                        ClearTimeout(Throw(frames, k, "action_catch", "HttpStatus"), k)
                   [] outcome = "timeout" ->
                        TimerFired(Throw(frames, k, "action_catch", "Timeout"), k)
                   [] OTHER -> Throw(frames, k, "action_catch", "NetworkError")
  /\ UNCHANGED <<ctx, logs>>
  /\ UNCHANGED events

\* The callback of a timer that was left pending runs HTTP_TIMEOUT after
\* setTimeout: it aborts a request that is over.
AbortTimerFires(k) ==
  /\ frames[k].fn = "executeNode"
  /\ frames[k].timer = "pending"
  /\ frames[k].pc # "fetch"
  /\ frames' = TimerFired(frames, k)
  /\ UNCHANGED <<ctx, logs>>
  /\ UNCHANGED events

\* The catch block of executeAction: the error is recorded and the action
\* goes on to its successors.
\* C1 mutant: the catch block of executeAction swallows the exception.
RecordActionError_Swallowed(cs, c, nodeId, exc) == cs

\* C15 mutant: the catch block of executeAction records the error twice.
RecordActionError_Twice(cs, c, nodeId, exc) ==
  PushError(PushError(cs, c, Err("ActionError", nodeId, exc)),
            c, Err("ActionError", nodeId, exc))

RecordActionError(cs, c, nodeId, exc) ==
  PushError(cs, c, Err("ActionError", nodeId, exc))

ActionCatch(k) ==
  /\ Running(k, "executeNode", "action_catch")
  /\ ctx' = RecordActionError(ctx, frames[k].c, frames[k].node, frames[k].exc)
  /\ frames' = [frames EXCEPT ![k].pc = "next", ![k].exc = None]
  /\ UNCHANGED logs
  /\ UNCHANGED events

\* The catch block of executeNode.  After a Condition or an Action it
\* returns; after any other node it walks the successors from the catch
\* block, where nothing catches what they throw.
RecordNodeError(cs, c, nodeId, exc) ==
  PushError(cs, c, Err("NodeError", nodeId, exc))

NodeCatch(k) ==
  /\ Running(k, "executeNode", "catch")
  /\ ctx' = RecordNodeError(ctx, frames[k].c, frames[k].node, frames[k].exc)
  /\ frames' = IF NodeOf(k).type \in {NODE_CONDITION, NODE_ACTION}
               THEN Return(frames, k)
               ELSE [frames EXCEPT ![k].pc = "next", ![k].idx = 1,
                                   ![k].exc = None, ![k].inCatch = TRUE]
  /\ UNCHANGED logs
  /\ UNCHANGED events

\* The successor loop of executeTrigger, of executeAction and of the catch
\* block: for (const nextNodeId of nextNodes) await this.executeNode(...).
\* One step is the return of the awaited call and the next call.
Advance(k) ==
  /\ Running(k, "executeNode", "next")
  /\ ChildrenDone(k)
  /\ LET c == frames[k].c
         nextNodes == getNextNodes(frames[k].node, FlowOf(c))
     IN
     IF ChildThrew(k)
     THEN LET j == ThrownBy(k)
              fs == [frames EXCEPT ![j].st = "caught"]
          IN frames' = IF frames[k].inCatch
                       THEN [fs EXCEPT ![k].st = "threw", ![k].pc = "done",
                                       ![k].exc = frames[j].exc,
                                       ![k].raised = frames[j].exc]
                       ELSE Throw(fs, k, "catch", frames[j].exc)
     ELSE IF frames[k].idx > Len(nextNodes)
     THEN frames' = Return(frames, k)
     ELSE /\ CanCall
          /\ frames' = Call([frames EXCEPT ![k].idx = @ + 1], k,
                            <<Frame("executeNode", c, nextNodes[frames[k].idx],
                                    "entry", k)>>)
  /\ UNCHANGED <<ctx, logs>>
  /\ UNCHANGED events

\* ---------------------------------------------------- executeCallFlowAction

RepoOutcomes == {"ok", "error"}

\* { ...context.webhookData.data, ...(config.data || {}) }
\* C27 mutant: on a key collision the current payload wins.
MergeData_PayloadWins(current, extra) ==
  [key \in (DOMAIN current) \cup (DOMAIN extra) |->
     IF key \in DOMAIN current THEN current[key] ELSE extra[key]]

MergeData(current, extra) ==
  [key \in (DOMAIN current) \cup (DOMAIN extra) |->
     IF key \in DOMAIN extra THEN extra[key] ELSE current[key]]

ConfigOf(k) == NodeOf(k).data.config

\* From the end of await flowRepository.findById(config.flowId) to the call
\* of flowExecutionLogRepository.create, or to one of the exits before it.
\* C26 mutant: the lookup does not test the active flag.
CallFlowFind_IgnoresActive(k) ==
  /\ Running(k, "executeNode", "findById")
  /\ \E outcome \in RepoOutcomes :
       frames' =
         IF outcome = "error"
         THEN Throw(frames, k, "action_catch", "CallFlowError")
         ELSE IF ConfigOf(k).flowId \notin FlowIds
         THEN Throw(frames, k, "action_catch", "FlowNotFound")
         ELSE Goto(frames, k, "createLog")
  /\ UNCHANGED <<ctx, logs>>
  /\ UNCHANGED events

CallFlowFind(k) ==
  /\ Running(k, "executeNode", "findById")
  /\ \E outcome \in RepoOutcomes :
       frames' =
         IF outcome = "error"
         THEN Throw(frames, k, "action_catch", "CallFlowError")
         ELSE IF ConfigOf(k).flowId \notin FlowIds
         THEN Throw(frames, k, "action_catch", "FlowNotFound")
         ELSE IF ~FlowById(ConfigOf(k).flowId).active
         THEN Goto(frames, k, "next")
         ELSE Goto(frames, k, "createLog")
  /\ UNCHANGED <<ctx, logs>>
  /\ UNCHANGED events

LogRecord(flowId, webhookEventId) ==
  [flowId |-> flowId, webhookEventId |-> webhookEventId,
   status |-> STATUS_RUNNING, executedNodes |-> <<>>, error |-> <<>>]

\* From the end of await flowExecutionLogRepository.create(...) to
\* await this.executeFlow(targetFlow, syntheticWebhookEvent, context).
CallFlowExecute(k) ==
  /\ Running(k, "executeNode", "createLog")
  /\ CanCall
  /\ \E outcome \in RepoOutcomes :
       LET c == frames[k].c
           config == ConfigOf(k)
           syntheticWebhookEvent ==
             [ctx[c].webhookData EXCEPT
                !.data = MergeData(ctx[c].webhookData.data, config.data)]
           created == outcome = "ok"
       IN /\ logs' = IF created
                      THEN Append(logs, LogRecord(config.flowId, ctx[c].webhookData.id))
                      ELSE logs
          /\ ctx' = Append(ctx, NewContext(config.flowId, syntheticWebhookEvent, c, ctx))
          /\ frames' = Call([frames EXCEPT ![k].pc = "executeFlow",
                                           ![k].logId = IF created THEN Len(logs) + 1 ELSE 0],
                            k, <<Frame("executeFlow", Len(ctx) + 1, None, "start", k)>>)
  /\ UNCHANGED events

\* C28 mutant: the record is closed as SUCCESS whatever the result.
CompletedStatus_AlwaysSuccess(result) == STATUS_SUCCESS

\* result.success ? EXECUTION_STATUS.SUCCESS : EXECUTION_STATUS.ERROR
CompletedStatus(result) ==
  IF result.success THEN STATUS_SUCCESS ELSE STATUS_ERROR

CalledFlow(k) == CHOOSE j \in Children(k) : frames[j].fn = "executeFlow"

\* C38 mutant: the call leaves the called flow's stack and depth in the
\* caller's context.
AfterCalledFlow_KeepsStack(cs, c, sub) ==
  [cs EXCEPT ![c].flowCallStack = cs[sub].flowCallStack,
             ![c].depth = cs[sub].depth]

\* C7 mutant: the errors of the called flow are appended to the caller's.
AfterCalledFlow_Propagates(cs, c, sub) ==
  [cs EXCEPT ![c].errors = @ \o cs[sub].errors]

\* What the result of the called flow changes in the contexts: nothing.  A
\* failed result is logged ("não propagamos erros do flow chamado").
AfterCalledFlow(cs, c, sub) == cs

\* From the end of await this.executeFlow(...) to the successor loop: the
\* log record is updated with the result, which is otherwise only logged.
CallFlowReturn(k) ==
  /\ Running(k, "executeNode", "executeFlow")
  /\ ChildrenDone(k)
  /\ LET j == CalledFlow(k)
         sub == frames[j].c
         result == ctx[sub].result
     IN
     IF frames[j].st = "threw"
     THEN /\ frames' = Throw(frames, k, "action_catch", "CallFlowError")
          /\ UNCHANGED logs
     ELSE /\ frames' = Goto(frames, k, "next")
          /\ \E outcome \in RepoOutcomes :
               logs' = IF frames[k].logId # 0 /\ outcome = "ok"
                       THEN [logs EXCEPT ![frames[k].logId] =
                               [@ EXCEPT !.status = CompletedStatus(result),
                                         !.executedNodes = result.executedNodes,
                                         !.error = ResultErrors(sub)]]
                       ELSE logs
  /\ ctx' = IF frames[CalledFlow(k)].st = "threw" THEN ctx
            ELSE AfterCalledFlow(ctx, frames[k].c, frames[CalledFlow(k)].c)
  /\ UNCHANGED events

\* ------------------------------------------------------------ specification

Next ==
  \/ \E k \in DOMAIN frames : ExecuteFlowReject(k)
  \/ \E k \in DOMAIN frames : ExecuteFlowRun(k)
  \/ \E k \in DOMAIN frames : ExecuteFlowFinish(k)
  \/ \E k \in DOMAIN frames : NodeSkip(k)
  \/ \E k \in DOMAIN frames : NodeNotFound(k)
  \/ \E k \in DOMAIN frames : RunTrigger(k)
  \/ \E k \in DOMAIN frames : RunEnd(k)
  \/ \E k \in DOMAIN frames : RunUnknown(k)
  \/ \E k \in DOMAIN frames : RunCondition(k)
  \/ \E k \in DOMAIN frames : JoinBranches(k)
  \/ \E k \in DOMAIN frames : RunAction(k)
  \/ \E k \in DOMAIN frames : HttpResponse(k)
  \/ \E k \in DOMAIN frames : AbortTimerFires(k)
  \/ \E k \in DOMAIN frames : ActionCatch(k)
  \/ \E k \in DOMAIN frames : NodeCatch(k)
  \/ \E k \in DOMAIN frames : Advance(k)
  \/ \E k \in DOMAIN frames : CallFlowFind(k)
  \/ \E k \in DOMAIN frames : CallFlowExecute(k)
  \/ \E k \in DOMAIN frames : CallFlowReturn(k)

Spec == Init /\ [][Next]_vars

\* Every awaited operation completes (HTTP calls are cut by their timeout,
\* repository calls answer) and the event loop resumes every continuation
\* that is ready, so a step that stays possible is eventually taken.
FairSpec == Spec /\ WF_vars(Next)

\* ---------------------------------------------- evaluateCondition on its own

\* The field paths evaluateCondition is called with: the text of the
\* Condition's field and the property names it spells.
EvalPaths ==
  {[text |-> <<"d", "a", "t", "a", ".", "l", "e", "a", "d", ".", "s", "o", "u", "r", "c", "e">>,
    keys |-> <<"lead", "source">>],
   [text |-> <<"l", "e", "a", "d", ".", "s", "o", "u", "r", "c", "e">>,
    keys |-> <<"lead", "source">>],
   [text |-> <<" ", "l", "e", "a", "d", ".", "s", "c", "o", "r", "e", " ">>,
    keys |-> <<"lead", "score">>],
   [text |-> <<"l", "e", "a", "d", ".", "m", "i", "s", "s", "i", "n", "g">>,
    keys |-> <<"lead", "missing">>],
   [text |-> <<"l", "e", "a", "d", ".", "m", "i", "s", "s", "i", "n", "g", ".", "d", "e", "e", "p">>,
    keys |-> <<"lead", "missing", "deep">>],
   [text |-> <<"l", "e", "a", "d", ".", "g", "o", "n", "e">>,
    keys |-> <<"lead", "gone">>],
   [text |-> <<"l", "e", "a", "d", ".", "g", "o", "n", "e", ".", "x">>,
    keys |-> <<"lead", "gone", "x">>],
   [text |-> <<"l", "e", "a", "d", ".", "s", "o", "u", "r", "c", "e", ".", "x">>,
    keys |-> <<"lead", "source", "x">>],
   [text |-> <<"l", "e", "a", "d", ".", "s", "c", "o", "r", "e", ".", "x">>,
    keys |-> <<"lead", "score", "x">>],
   [text |-> <<"d", "a", "t", "a", ".">>,
    keys |-> <<"">>],
   [text |-> <<"l", "e", "a", "d">>,
    keys |-> <<"lead">>],
   [text |-> <<"o", "t", "h", "e", "r", ".", "l", "e", "a", "d">>,
    keys |-> <<"other", "lead">>]}

EvalOperators ==
  {EQUALS, NOT_EQUALS, CONTAINS, GREATER_THAN, LESS_THAN, "MATCHES"}

\* The literals of a Condition (string | number), each with the number it
\* reads as: a set of one number, or of none.
EvalLiterals ==
  {[v |-> StrVal(S_whatsapp), num |-> {}],
   [v |-> StrVal(<<"s">>), num |-> {}],
   [v |-> StrVal(<<"3", "0", "0", "0">>), num |-> {3000}],
   [v |-> NumVal(3000), num |-> {3000}],
   [v |-> NumVal(5000), num |-> {5000}],
   [v |-> StrVal(<<" ", "1", "2", " ">>), num |-> {12}],
   [v |-> StrVal(<<"1", "2", "a">>), num |-> {}],
   [v |-> StrVal(<<"n", "u", "l", "l">>), num |-> {}],
   [v |-> StrVal(<<"u", "n", "d", "e", "f", "i", "n", "e", "d">>), num |-> {}]}

\* Event payloads: lead.gone is null, lead.missing is absent; in the third
\* lead.source and lead.score are objects with a key "toString"; the fourth
\* has no lead at all.
EvalPayloads ==
  {[lead |-> ObjVal([source |-> StrVal(S_whatsapp), score |-> NumVal(5000),
                     gone |-> NullVal])],
   [lead |-> ObjVal([source |-> StrVal(<<"1", "2">>),
                     score |-> StrVal(<<"1", "2", "a">>), gone |-> NullVal])],
   [lead |-> ObjVal([source |-> ObjVal([toString |-> StrVal(S_whatsapp)]),
                     score |-> ObjVal([toString |-> NumVal(5000)]),
                     gone |-> NullVal])],
   [other |-> ObjVal([lead |-> NumVal(3000)])]}

\* One call of evaluateCondition(condition, data): the frame keeps the
\* arguments, the property names of the field and the number the literal
\* reads as, and, once the call has returned, its result; a call that
\* throws ends in "threw".
EvalInit ==
  \E path \in EvalPaths, op \in EvalOperators, lit \in EvalLiterals,
     data \in EvalPayloads :
    /\ ctx = <<>>
    /\ logs = <<>>
    /\ events = <<>>
    /\ frames = (Top :> [fn |-> "evaluateCondition",
                         condition |-> [field |-> path.text, operator |-> op,
                                        value |-> lit.v],
                         data |-> data, keys |-> path.keys, num |-> lit.num,
                         st |-> "running", out |-> FALSE])

EvaluateConditionCall(k) ==
  /\ frames[k].fn = "evaluateCondition"
  /\ frames[k].st = "running"
  /\ frames' = IF evaluateConditionThrows(frames[k].condition, frames[k].data)
               THEN [frames EXCEPT ![k].st = "threw"]
               ELSE [frames EXCEPT
                       ![k].st = "returned",
                       ![k].out = evaluateCondition(frames[k].condition,
                                                    frames[k].data)]
  /\ UNCHANGED <<ctx, logs>>
  /\ UNCHANGED events

EvalNext ==
  \/ \E k \in DOMAIN frames : EvaluateConditionCall(k)

EvalSpec == EvalInit /\ [][EvalNext]_vars

\* ------------------------------------------- interpolateVariables on its own

\* The pieces templates are made of: plain text, and placeholders, each with
\* the text between its braces and the property names that text spells.
Pieces ==
  {[hole |-> FALSE, s |-> <<"H", "i", " ">>,
    keys |-> <<>>],
   [hole |-> FALSE, s |-> <<"{", "{", "}", "}">>,
    keys |-> <<>>],
   [hole |-> FALSE, s |-> <<"}", "}", " ", "{", "a", "}">>,
    keys |-> <<>>],
   [hole |-> TRUE, s |-> <<"l", "e", "a", "d", ".", "s", "o", "u", "r", "c", "e">>,
    keys |-> <<"lead", "source">>],
   [hole |-> TRUE, s |-> <<" ", "l", "e", "a", "d", ".", "s", "c", "o", "r", "e", " ">>,
    keys |-> <<"lead", "score">>],
   [hole |-> TRUE, s |-> <<"l", "e", "a", "d", ".", "m", "i", "s", "s", "i", "n", "g">>,
    keys |-> <<"lead", "missing">>],
   [hole |-> TRUE, s |-> <<"l", "e", "a", "d", ".", "g", "o", "n", "e">>,
    keys |-> <<"lead", "gone">>],
   [hole |-> TRUE, s |-> <<"d", "a", "t", "a", ".", "l", "e", "a", "d", ".", "s", "o", "u", "r", "c", "e">>,
    keys |-> <<"data", "lead", "source">>],
   [hole |-> TRUE, s |-> <<"l", "e", "a", "d">>,
    keys |-> <<"lead">>],
   [hole |-> TRUE, s |-> <<" ">>,
    keys |-> <<"">>]}

MaxPieces == 3
\* The longest edge list validateAndFixEdges is run on, and the number of
\* times it is run on one flow.
MaxEdges == 3
MaxRuns == 2

Templates == UNION {[1..n -> Pieces] : n \in 0..MaxPieces}

Braced(piece) ==
  IF piece.hole THEN <<"{", "{">> \o piece.s \o <<"}", "}">> ELSE piece.s

RECURSIVE TemplateText(_)
TemplateText(pieces) ==
  IF pieces = <<>> THEN <<>>
  ELSE Braced(Head(pieces)) \o TemplateText(Tail(pieces))

\* One call of interpolateVariables(template, data) on a payload of
\* EvalPayloads.
InterpolateInit ==
  \E pieces \in Templates, data \in EvalPayloads :
    /\ ctx = <<>>
    /\ logs = <<>>
    /\ events = <<>>
    /\ frames = (Top :> [fn |-> "interpolateVariables",
                         template |-> TemplateText(pieces), data |-> data,
                         pieces |-> pieces, st |-> "running", out |-> <<>>])

InterpolateVariablesCall(k) ==
  /\ frames[k].fn = "interpolateVariables"
  /\ frames[k].st = "running"
  /\ frames' = IF interpolateVariablesThrows(frames[k].template, frames[k].data)
               THEN [frames EXCEPT ![k].st = "threw"]
               ELSE [frames EXCEPT
                       ![k].st = "returned",
                       ![k].out = interpolateVariables(frames[k].template,
                                                       frames[k].data)]
  /\ UNCHANGED <<ctx, logs>>
  /\ UNCHANGED events

InterpolateNext ==
  \/ \E k \in DOMAIN frames : InterpolateVariablesCall(k)

InterpolateSpec == InterpolateInit /\ [][InterpolateNext]_vars

\* ------------------------------------ one path, as a field and as a placeholder

\* Dotted paths written with the data. prefix, as the documented example
\* flow writes them, with the property names they spell under the payload.
PrefixedPaths ==
  {[text |-> <<"d", "a", "t", "a", ".", "l", "e", "a", "d", ".", "s", "o", "u", "r", "c", "e">>,
    keys |-> <<"lead", "source">>],
   [text |-> <<"d", "a", "t", "a", ".", "l", "e", "a", "d", ".", "n", "a", "m", "e">>,
    keys |-> <<"lead", "name">>],
   [text |-> <<" ", "d", "a", "t", "a", ".", "l", "e", "a", "d", ".", "n", "a", "m", "e", " ">>,
    keys |-> <<"lead", "name">>],
   [text |-> <<"d", "a", "t", "a", ".", "l", "e", "a", "d", ".", "s", "c", "o", "r", "e">>,
    keys |-> <<"lead", "score">>],
   [text |-> <<"d", "a", "t", "a", ".", "l", "e", "a", "d", ".", "g", "o", "n", "e">>,
    keys |-> <<"lead", "gone">>],
   [text |-> <<"d", "a", "t", "a", ".", "l", "e", "a", "d", ".", "m", "i", "s", "s", "i", "n", "g">>,
    keys |-> <<"lead", "missing">>]}

S_maria == <<"M", "a", "r", "i", "a">>
S_eva == <<"E", "v", "a">>

\* Payloads of the documented shape (lead.name, lead.source); the last one
\* also has a key "data" of its own.
NamedPayloads ==
  {[lead |-> ObjVal([name |-> StrVal(S_maria), source |-> StrVal(S_whatsapp),
                     score |-> NumVal(5000), gone |-> NullVal])],
   [lead |-> ObjVal([name |-> StrVal(S_eva), source |-> StrVal(S_website),
                     score |-> NumVal(3000), gone |-> NullVal])],
   [lead |-> ObjVal([name |-> StrVal(S_maria), source |-> StrVal(S_website),
                     gone |-> NullVal]),
    data |-> ObjVal([lead |-> ObjVal([name |-> StrVal(S_eva)])])]}

ResolveLiterals ==
  {StrVal(S_maria), StrVal(S_eva), StrVal(S_whatsapp), StrVal(S_website),
   NumVal(5000), NumVal(3000)}

\* The same path given to evaluateCondition, as the field of an EQUALS
\* condition, and to interpolateVariables, as the only placeholder of a
\* template, on the same payload.
ResolveInit ==
  \E path \in PrefixedPaths, lit \in ResolveLiterals, data \in NamedPayloads :
    /\ ctx = <<>>
    /\ logs = <<>>
    /\ events = <<>>
    /\ frames =
         (Top :> [fn |-> "evaluateCondition",
                  condition |-> [field |-> path.text, operator |-> EQUALS,
                                 value |-> lit],
                  data |-> data, keys |-> path.keys, num |-> {},
                  st |-> "running", out |-> FALSE])
         @@ (<<2>> :> [fn |-> "interpolateVariables",
                       template |-> <<"{", "{">> \o path.text \o <<"}", "}">>,
                       data |-> data,
                       pieces |-> <<[hole |-> TRUE, s |-> path.text,
                                     keys |-> path.keys]>>,
                       st |-> "running", out |-> <<>>])

ResolveNext ==
  \/ \E k \in DOMAIN frames : EvaluateConditionCall(k)
  \/ \E k \in DOMAIN frames : InterpolateVariablesCall(k)

ResolveSpec == ResolveInit /\ [][ResolveNext]_vars

\* ------------------------------------------------------------ WebhookService

\* The flows table as findActive reads it, in updated_at order, newest
\* first.  Each store holds every flow its flows call, so that the engine's
\* findById over AllFlows finds what the store holds.
Stores ==
  {<<"V", "I", "Y", "Q">>, <<"U", "I">>, <<"P", "Q", "K", "L">>}

\* A call of the service: webhookEvent is the payload of receiveWebhook and
\* the saved event of the other two, store the flows table, flow the flow
\* of executeFlowForWebhook, relevantFlows the filtered flows of
\* processWebhookFlows, idx the next of them to execute.
ServiceFrame(fn, pc, caller, webhookEvent, store, flow) ==
  [fn |-> fn, c |-> 0, node |-> None, pc |-> pc, caller |-> caller,
   idx |-> 1, st |-> "running", exc |-> None, raised |-> None, logId |-> 0,
   ran |-> FALSE, inCatch |-> FALSE,
   webhookEvent |-> webhookEvent, store |-> store, flow |-> flow,
   relevantFlows |-> <<>>]

Background == <<2>>

\* C35 mutant: the event is saved as already processed.
SavedEvent_Processed(payload) ==
  [id |-> payload.id, event |-> payload.event, data |-> payload.data,
   processed |-> TRUE]

\* The row webhookRepository.create inserts for the payload.
SavedEvent(payload) ==
  [id |-> payload.id, event |-> payload.event, data |-> payload.data,
   processed |-> FALSE]

\* receiveWebhook from the end of await webhookRepository.create(...) to
\* its return: processWebhookFlows is started, runs up to its first await
\* and is not awaited.  A failed create is rethrown by the catch.
ReceiveWebhook(k) ==
  /\ Running(k, "receiveWebhook", "create")
  /\ \E outcome \in RepoOutcomes :
       IF outcome = "ok"
       THEN /\ events' = Append(events, SavedEvent(frames[k].webhookEvent))
            /\ frames' = Return(frames, k) @@
                 (Background :>
                    ServiceFrame("processWebhookFlows", "findActive", <<>>,
                                 frames[k].webhookEvent, frames[k].store, None))
       ELSE /\ frames' = [frames EXCEPT ![k].st = "threw", ![k].pc = "done",
                                        ![k].exc = "RepositoryError",
                                        ![k].raised = "RepositoryError"]
            /\ UNCHANGED events
  /\ UNCHANGED <<ctx, logs>>

\* flowRepository.findActive(): .eq('active', true), in the table's order.
findActive(store) == SelectSeq(store, LAMBDA id : FlowById(id).active)

\* C34 mutant: the filter keeps every flow that has a Trigger.
RelevantFlows_AnyEvent(flows, webhookEvent) ==
  SelectSeq(flows, LAMBDA id : FindTrigger(FlowById(id)) # 0)

\* flows.filter(...): the flows whose first Trigger node has the event's
\* name.
RelevantFlows(flows, webhookEvent) ==
  SelectSeq(flows, LAMBDA id :
    /\ FindTrigger(FlowById(id)) # 0
    /\ TriggerOf(FlowById(id)).data.event = webhookEvent.event)

\* processWebhookFlows from the end of await flowRepository.findActive() to
\* the for loop.  A failed query is rethrown by the catch.
FindRelevantFlows(k) ==
  /\ Running(k, "processWebhookFlows", "findActive")
  /\ \E outcome \in RepoOutcomes :
       frames' =
         IF outcome = "ok"
         THEN [frames EXCEPT
                 ![k].pc = "loop",
                 ![k].relevantFlows =
                   RelevantFlows(findActive(frames[k].store), frames[k].webhookEvent)]
         ELSE [frames EXCEPT ![k].st = "threw", ![k].pc = "done",
                             ![k].exc = "RepositoryError",
                             ![k].raised = "RepositoryError"]
  /\ UNCHANGED <<ctx, logs, events>>

LastRun(k) == Append(k, frames[k].idx - 1)

\* C33 mutant: the loop ends at the first flow whose log is not SUCCESS.
LoopDone_StopsOnFailure(k) ==
  IF frames[k].idx > Len(frames[k].relevantFlows) THEN TRUE
  ELSE IF frames[k].idx = 1 THEN FALSE
  ELSE IF frames[LastRun(k)].logId = 0 THEN TRUE
  ELSE logs[frames[LastRun(k)].logId].status # STATUS_SUCCESS

\* for (const flow of relevantFlows): the loop is over.
LoopDone(k) == frames[k].idx > Len(frames[k].relevantFlows)

\* processWebhookFlows, one turn of for (const flow of relevantFlows):
\* executeFlowForWebhook is called and runs up to
\* await flowExecutionLogRepository.create(...).
ExecuteRelevantFlows(k) ==
  /\ Running(k, "processWebhookFlows", "loop")
  /\ ChildrenDone(k)
  /\ ~LoopDone(k)
  /\ CanCall
  /\ frames' = Call([frames EXCEPT ![k].idx = @ + 1], k,
                    <<ServiceFrame("executeFlowForWebhook", "createLog", k,
                                   frames[k].webhookEvent, frames[k].store,
                                   frames[k].relevantFlows[frames[k].idx])>>)
  /\ UNCHANGED <<ctx, logs, events>>

\* processWebhookFlows from the end of the loop to its return:
\* await webhookRepository.markAsProcessed(webhookEvent.id).  A failed
\* update is rethrown by the catch.
MarkAsProcessed(k) ==
  /\ Running(k, "processWebhookFlows", "loop")
  /\ ChildrenDone(k)
  /\ LoopDone(k)
  /\ \E outcome \in RepoOutcomes :
       IF outcome = "ok"
       THEN /\ events' = [i \in DOMAIN events |->
                            IF events[i].id = frames[k].webhookEvent.id
                            THEN [events[i] EXCEPT !.processed = TRUE]
                            ELSE events[i]]
            /\ frames' = Return(frames, k)
       ELSE /\ frames' = [frames EXCEPT ![k].st = "threw", ![k].pc = "done",
                                        ![k].exc = "RepositoryError",
                                        ![k].raised = "RepositoryError"]
            /\ UNCHANGED events
  /\ UNCHANGED <<ctx, logs>>

\* executeFlowForWebhook from the end of
\* await flowExecutionLogRepository.create(...) to
\* await flowEngine.executeFlow(flow, webhookEvent).  A failed create goes
\* to the catch, which has no log to update and returns.
CreateExecutionLog(k) ==
  /\ Running(k, "executeFlowForWebhook", "createLog")
  /\ CanCall
  /\ \E outcome \in RepoOutcomes :
       IF outcome = "ok"
       THEN /\ logs' = Append(logs, LogRecord(frames[k].flow, frames[k].webhookEvent.id))
            /\ ctx' = Append(ctx, NewContext(frames[k].flow, frames[k].webhookEvent, 0, ctx))
            /\ frames' = Call([frames EXCEPT ![k].pc = "executeFlow",
                                             ![k].logId = Len(logs) + 1],
                              k, <<Frame("executeFlow", Len(ctx) + 1, None, "start", k)>>)
       ELSE /\ frames' = Return([frames EXCEPT ![k].raised = "RepositoryError",
                                               ![k].inCatch = TRUE], k)
            /\ UNCHANGED <<ctx, logs>>
  /\ UNCHANGED events

\* C32 mutant: the update writes the status only.
ResultUpdate_StatusOnly(log, result, errors) ==
  [log EXCEPT !.status = IF result.success THEN STATUS_SUCCESS ELSE STATUS_ERROR]

\* The record after flowExecutionLogRepository.update(logId, {status,
\* executedNodes, error, completedAt}) with the result of the run.
ResultUpdate(log, result, errors) ==
  [log EXCEPT !.status = IF result.success THEN STATUS_SUCCESS ELSE STATUS_ERROR,
              !.executedNodes = result.executedNodes,
              !.error = errors]

\* executeFlowForWebhook from the end of await flowEngine.executeFlow(...)
\* to the end of the try block: the update of the log with the result.  A
\* failed update goes to the catch, which awaits its own update.
UpdateExecutionLog(k) ==
  /\ Running(k, "executeFlowForWebhook", "executeFlow")
  /\ ChildrenDone(k)
  /\ \E outcome \in RepoOutcomes :
       LET sub == frames[CalledFlow(k)].c IN
       IF outcome = "ok"
       THEN /\ logs' = [logs EXCEPT ![frames[k].logId] =
                          ResultUpdate(@, ctx[sub].result, ResultErrors(sub))]
            /\ frames' = Return(frames, k)
       ELSE /\ logs' = logs
            /\ frames' = [frames EXCEPT ![k].pc = "catch",
                                        ![k].raised = "RepositoryError",
                                        ![k].inCatch = TRUE]
  /\ UNCHANGED <<ctx, events>>

\* The catch of executeFlowForWebhook with a log: the record is set to
\* ERROR with the message of the exception; a failure of this update is
\* logged and nothing is rethrown.
UpdateExecutionLogCatch(k) ==
  /\ Running(k, "executeFlowForWebhook", "catch")
  /\ \E outcome \in RepoOutcomes :
       logs' = IF outcome = "ok"
               THEN [logs EXCEPT ![frames[k].logId] =
                       [@ EXCEPT !.status = STATUS_ERROR,
                                 !.error = <<frames[k].raised>>]]
               ELSE logs
  /\ frames' = Return(frames, k)
  /\ UNCHANGED <<ctx, events>>

WebhookInit ==
  \E store \in Stores, ev \in EventNames, data \in Payloads :
    /\ ctx = <<>>
    /\ logs = <<>>
    /\ events = <<>>
    /\ frames = (Top :> ServiceFrame("receiveWebhook", "create", <<>>,
                                     WebhookEvent("w1", ev, data), store, None))

WebhookNext ==
  \/ \E k \in DOMAIN frames : ReceiveWebhook(k)
  \/ \E k \in DOMAIN frames : FindRelevantFlows(k)
  \/ \E k \in DOMAIN frames : ExecuteRelevantFlows(k)
  \/ \E k \in DOMAIN frames : MarkAsProcessed(k)
  \/ \E k \in DOMAIN frames : CreateExecutionLog(k)
  \/ \E k \in DOMAIN frames : UpdateExecutionLog(k)
  \/ \E k \in DOMAIN frames : UpdateExecutionLogCatch(k)
  \/ \E k \in DOMAIN frames : ExecuteFlowReject(k)
  \/ \E k \in DOMAIN frames : ExecuteFlowRun(k)
  \/ \E k \in DOMAIN frames : ExecuteFlowFinish(k)
  \/ \E k \in DOMAIN frames : NodeSkip(k)
  \/ \E k \in DOMAIN frames : NodeNotFound(k)
  \/ \E k \in DOMAIN frames : RunTrigger(k)
  \/ \E k \in DOMAIN frames : RunEnd(k)
  \/ \E k \in DOMAIN frames : RunUnknown(k)
  \/ \E k \in DOMAIN frames : RunCondition(k)
  \/ \E k \in DOMAIN frames : JoinBranches(k)
  \/ \E k \in DOMAIN frames : RunAction(k)
  \/ \E k \in DOMAIN frames : HttpResponse(k)
  \/ \E k \in DOMAIN frames : AbortTimerFires(k)
  \/ \E k \in DOMAIN frames : CallFlowFind(k)
  \/ \E k \in DOMAIN frames : CallFlowExecute(k)
  \/ \E k \in DOMAIN frames : CallFlowReturn(k)
  \/ \E k \in DOMAIN frames : ActionCatch(k)
  \/ \E k \in DOMAIN frames : Advance(k)
  \/ \E k \in DOMAIN frames : NodeCatch(k)

WebhookSpec == WebhookInit /\ [][WebhookNext]_vars

\* Every awaited repository call, HTTP call and flow run completes and the
\* event loop resumes every continuation that is ready.
WebhookFairSpec == WebhookSpec /\ WF_vars(WebhookNext)

\* ------------------------------------------- FlowService.validateAndFixEdges

\* An edge as stored: the engine's fields and the edge's id.
StoredEdge(id, s, t, h) ==
  [id |-> id, source |-> s, target |-> t, sourceHandle |-> h]

\* The stored flows validateAndFixEdges is run on: a Trigger, two
\* Conditions and an Action, and up to MaxEdges edges that leave any of
\* them, or a node that does not exist, with no handle, "yes", "no" or
\* another handle.
EdgeIds == <<"e1", "e2", "e3", "e4">>
EdgeSources == {"t", "c", "d", "ghost"}
EdgeHandles == {None, YES, NO, "maybe"}
EdgeLists ==
  UNION {[1..n -> EdgeSources \X EdgeHandles] : n \in 1..MaxEdges}
StoredFlow(es) ==
  Flow("X", TRUE,
       <<TriggerNode("t", EV_LEAD),
         ConditionNode("c", S_lead_source, EQUALS, StrVal(S_whatsapp)),
         ConditionNode("d", S_lead_source, EQUALS, StrVal(S_website)),
         ActionNode("a", ACTION_LOG, LogCfg)>>,
       [i \in DOMAIN es |-> StoredEdge(EdgeIds[i], es[i][1], "a", es[i][2])])

\* C36 mutant: every edge without a handle is fixed, whatever its source.
NeedsFix_AnySource(flow, edge) == edge.sourceHandle = None

\* sourceNode?.type === NODE_TYPES.CONDITION && !edge.sourceHandle
NeedsFix(flow, edge) ==
  /\ FindNode(flow, edge.source) # 0
  /\ flow.nodes[FindNode(flow, edge.source)].type = NODE_CONDITION
  /\ edge.sourceHandle = None

\* hasYes ? CONDITION_HANDLES.NO : CONDITION_HANDLES.YES, where hasYes is
\* whether another edge of the same source is a "yes" edge.
FixedHandle(edges, edge) ==
  IF \E j \in DOMAIN edges :
       /\ edges[j].source = edge.source
       /\ edges[j].id # edge.id
       /\ edges[j].sourceHandle = YES
  THEN NO ELSE YES

\* flow.edges.map(...) from edge i on.  The callback assigns to the edge
\* object itself, so an edge fixed earlier is seen, fixed, by the filter of
\* a later edge.
RECURSIVE FixEdges(_, _, _)
FixEdges(flow, edges, i) ==
  IF i > Len(edges) THEN edges
  ELSE IF NeedsFix(flow, edges[i])
       THEN FixEdges(flow,
                     [edges EXCEPT ![i].sourceHandle = FixedHandle(edges, edges[i])],
                     i + 1)
       ELSE FixEdges(flow, edges, i + 1)

needsUpdate(flow) == \E i \in DOMAIN flow.edges : NeedsFix(flow, flow.edges[i])

\* A call of validateAndFixEdges(flowId): stored is the flow in the table,
\* first the flow as it was before the first call, last the flow as it was
\* before the latest call, updated whether the latest call has updated the
\* table, runs the number of calls made.
FixInit ==
  \E es \in EdgeLists :
    /\ ctx = <<>>
    /\ logs = <<>>
    /\ events = <<>>
    /\ frames = (Top :> [fn |-> "validateAndFixEdges", st |-> "running",
                        stored |-> StoredFlow(es), first |-> StoredFlow(es),
                        last |-> StoredFlow(es), updated |-> FALSE, runs |-> 0])

\* validateAndFixEdges(flowId) on the stored flow: the edges are fixed and,
\* when one was, written with this.update(flowId, {edges: fixedEdges}),
\* which may fail.
ValidateAndFixEdges(k) ==
  /\ frames[k].fn = "validateAndFixEdges"
  /\ frames[k].st = "running"
  /\ frames[k].runs < MaxRuns
  /\ \E outcome \in RepoOutcomes :
       LET flow == frames[k].stored
           fixedEdges == FixEdges(flow, flow.edges, 1)
       IN frames' =
            IF ~needsUpdate(flow)
            THEN [frames EXCEPT ![k].runs = @ + 1, ![k].last = flow,
                                ![k].updated = FALSE]
            ELSE IF outcome = "ok"
            THEN [frames EXCEPT ![k].runs = @ + 1, ![k].last = flow,
                                ![k].updated = TRUE,
                                ![k].stored = [flow EXCEPT !.edges = fixedEdges]]
            ELSE [frames EXCEPT ![k].st = "threw", ![k].last = flow,
                                ![k].runs = @ + 1]
  /\ UNCHANGED <<ctx, logs, events>>

FixNext ==
  \/ \E k \in DOMAIN frames : ValidateAndFixEdges(k)

FixSpec == FixInit /\ [][FixNext]_vars

\* ------------------------------------------------------------------- claims

Contexts == 1..Len(ctx)
FlowFrames == {k \in DOMAIN frames : frames[k].fn = "executeFlow"}
NodeFrames == {k \in DOMAIN frames : frames[k].fn = "executeNode"}
Returned(c) == ctx[c].result.returned
ErrorsOf(c) == Range(ctx[c].errors)

Dispatched(c, n) ==
  {k \in NodeFrames : frames[k].c = c /\ frames[k].node = n /\ frames[k].ran}
Skipped(c, n) ==
  {k \in NodeFrames : /\ frames[k].c = c /\ frames[k].node = n
                      /\ ~frames[k].ran /\ frames[k].st = "returned"}
NoDuplicates(s) == \A i, j \in 1..Len(s) : s[i] = s[j] => i = j

\* C2: within one execution context no node is dispatched more than once
\* and executedNodes holds each node id at most once, whatever the edges
\* (several edges into a node, a cycle, two concurrent fan-out branches
\* with a common target) and whatever the interleaving of the branches.
C2_NodeDispatchedAtMostOnce ==
  \A c \in Contexts :
    /\ NoDuplicates(ctx[c].executedNodes)
    /\ \A k \in NodeFrames :
         frames[k].c = c => Cardinality(Dispatched(c, frames[k].node)) <= 1

\* C2 witness: a run of D has returned in which z, the common target of the
\* two fan-out branches, was dispatched once and skipped once, y (on the
\* cycle z -> y) and c (two edges from t) were skipped once as well.
C2_Witness ==
  /\ frames[Top].st = "returned"
  /\ ctx[1].flow = "D"
  /\ Cardinality(Dispatched(1, "z")) = 1 /\ Skipped(1, "z") # {}
  /\ Cardinality(Dispatched(1, "y")) = 1 /\ Skipped(1, "y") # {}
  /\ Cardinality(Dispatched(1, "c")) = 1 /\ Skipped(1, "c") # {}

\* C3: every run terminates: the top-level executeFlow eventually returns,
\* for flows with edge cycles and CALL_FLOW actions that reference each
\* other or themselves, provided every awaited operation completes.
C3_EveryRunTerminates == <>(frames[Top].st = "returned")

\* C3 witness: a run of L, whose graph has the cycle c -> a -> c, has
\* returned after the walk came back to c and to a.
C3_Witness ==
  /\ frames[Top].st = "returned"
  /\ ctx[1].flow = "L"
  /\ Skipped(1, "c") # {}
  /\ Dispatched(1, "a") # {}
  /\ \A k \in DOMAIN frames : frames[k].st = "returned"

\* The flow of context c occurs already in the call stack it inherits.
Repeats(c) ==
  /\ ctx[c].parent # 0
  /\ ctx[c].flow \in Range(ctx[ctx[c].parent].flowCallStack)

\* Context c never got past the guards of executeFlow: no node of it was
\* executed, no executeNode call was made for it, no flow was called from
\* it, and its executeFlow call is at its entry or has returned.
NothingExecuted(c) ==
  /\ ctx[c].executedNodes = <<>>
  /\ \A k \in NodeFrames : frames[k].c # c
  /\ \A d \in Contexts : ctx[d].parent # c
  /\ \A k \in FlowFrames : frames[k].c = c => frames[k].pc \in {"start", "done"}

\* C4: an invocation of a flow whose id occurs already in the inherited
\* call stack, below the depth limit, executes nothing and calls no
\* sub-flow, and returns with exactly the loop-detected error and an empty
\* executedNodes.
C4_LoopGuard ==
  \A c \in Contexts :
    (Repeats(c) /\ ctx[c].depth < MAX_FLOW_DEPTH) =>
      /\ NothingExecuted(c)
      /\ Returned(c) =>
           /\ ctx[c].errors =
                <<StackErr("LoopDetected", ctx[c].flow, ctx[c].flowCallStack)>>
           /\ ctx[c].result.executedNodes = <<>>

\* C4 witness: in a run of A the chain A -> B -> A was reached and the
\* second invocation of A has returned; so has the run.
C4_Witness ==
  /\ frames[Top].st = "returned"
  /\ \E c \in Contexts :
       /\ ctx[c].flowCallStack = <<"A", "B", "A">>
       /\ Repeats(c) /\ Returned(c)

ChainIds == <<"F0", "F1", "F2", "F3", "F4", "F5">>

\* C5: an invocation at depth >= MAX_FLOW_DEPTH executes nothing and
\* returns with exactly the depth-limit error, which names the call stack,
\* and an empty executedNodes; in the chain F0 -> F1 -> ... -> F5 started
\* on F0's event every invocation of F0..F4 that has returned executed its
\* nodes t, a and e.
C5_DepthGuard ==
  /\ \A c \in Contexts :
       ctx[c].depth >= MAX_FLOW_DEPTH =>
         /\ NothingExecuted(c)
         /\ Returned(c) =>
              /\ ctx[c].errors =
                   <<StackErr("DepthLimit", ctx[c].flow, ctx[c].flowCallStack)>>
              /\ ctx[c].result.executedNodes = <<>>
  /\ (ctx[1].flow = "F0" /\ ctx[1].webhookData.event = EV_LEAD) =>
       \A c \in Contexts :
         /\ ctx[c].flow = ChainIds[ctx[c].depth + 1]
         /\ (Returned(c) /\ ctx[c].depth < MAX_FLOW_DEPTH) =>
              ctx[c].result.executedNodes = <<"t", "a", "e">>

\* C5 witness: the run of F0 has returned after the chain reached F5 at
\* depth 5: F0..F4 executed their nodes and F5 none.
C5_Witness ==
  /\ frames[Top].st = "returned"
  /\ Len(ctx) = 6
  /\ ctx[6].flowCallStack = ChainIds
  /\ ctx[6].depth = MAX_FLOW_DEPTH
  /\ ctx[6].result.executedNodes = <<>>
  /\ \A c \in 1..5 : ctx[c].result.executedNodes = <<"t", "a", "e">>

RecursionKinds == {"DepthLimit", "LoopDetected"}

\* The depth or loop guard fired in the invocation of context c.
GuardFired(c) ==
  /\ Returned(c)
  /\ \E e \in ErrorsOf(c) : e.kind \in RecursionKinds

\* C6 as stated: whenever a guard fired anywhere in the CALL_FLOW chain of
\* a run, the result of the top-level executeFlow has success = false and
\* the recursion error in its errors.
C6_TopLevelSeesRecursionError ==
  (frames[Top].st = "returned" /\ \E c \in Contexts : GuardFired(c)) =>
    /\ ~ctx[1].result.success
    /\ \E e \in ErrorsOf(1) : e.kind \in RecursionKinds

\* C6: the invocation in which the depth-limit or loop guard fires is a
\* nested one; it returns, without throwing, a failed result holding the
\* recursion error to the CALL_FLOW action that called it, and that action
\* raises nothing; the recursion error is in the errors of no calling
\* context, so the result of the top-level executeFlow never holds it.
C6_GuardFailsItsOwnInvocation ==
  /\ \A c \in Contexts :
       GuardFired(c) =>
         /\ c # 1 /\ ctx[c].parent # 0
         /\ ~ctx[c].result.success
         /\ \A k \in FlowFrames :
              frames[k].c = c =>
                /\ frames[k].st = "returned"
                /\ frames[frames[k].caller].st \in {"running", "returned"}
                /\ frames[frames[k].caller].raised = None
         /\ \A e \in ErrorsOf(ctx[c].parent) : e.kind \notin RecursionKinds
  /\ \A e \in ErrorsOf(1) : e.kind \notin RecursionKinds

\* C6 witness: the run of S, which calls itself, has returned success =
\* true although the loop guard fired in the nested invocation of S.
C6_Witness ==
  /\ frames[Top].st = "returned"
  /\ ctx[1].flow = "S"
  /\ ctx[1].result.success
  /\ \E c \in Contexts : GuardFired(c) /\ ctx[c].flowCallStack = <<"S", "S">>

\* Frame k is executeNode of a CALL_FLOW action whose called flow has
\* returned a failed result.
SubFlowFailed(k) ==
  /\ k \in NodeFrames
  /\ \E j \in Children(k) :
       /\ frames[j].fn = "executeFlow"
       /\ frames[j].st = "returned"
       /\ ~ctx[frames[j].c].result.success

\* Error e of context c was recorded by the invocation of c itself: by its
\* executeFlow, or by an executeNode call made for it on node e.at.
OwnError(c, e) ==
  \/ e \in Range(EntryErrors(ctx[c]))
  \/ e.kind = "FatalError" /\ e.at = ctx[c].flow
  \/ \E j \in NodeFrames :
       /\ frames[j].c = c /\ frames[j].node = e.at
       /\ e.kind = "TargetNotFound" \/ e.cause \in {None, frames[j].raised}

C7_State ==
  /\ \A k \in NodeFrames :
       (SubFlowFailed(k) /\ frames[k].st = "returned") =>
         \A n \in Range(getNextNodes(frames[k].node, FlowOf(frames[k].c))) :
           FindNode(FlowOf(frames[k].c), n) # 0 =>
             n \in Range(ctx[frames[k].c].executedNodes)
  /\ \A c \in Contexts : \A e \in ErrorsOf(c) : OwnError(c, e)
  /\ (/\ ctx[1].flow = "P" /\ ctx[1].webhookData.event = EV_LEAD
      /\ frames[Top].st = "returned"
      /\ \A j \in NodeFrames : frames[j].c = 1 => frames[j].raised = None) =>
       ctx[1].result.success

C7_Step ==
  \A k \in NodeFrames :
    (/\ frames[k].pc = "executeFlow" /\ frames'[k].pc = "next"
     /\ ~ctx[frames[CalledFlow(k)].c].result.success) =>
      ctx'[frames[k].c].errors = ctx[frames[k].c].errors

\* C7: the errors of a called sub-flow are not propagated: the step in
\* which a CALL_FLOW action takes a failed result from the nested
\* executeFlow leaves the parent's errors unchanged, every error of a
\* context was recorded by its own invocation, the action's successors are
\* executed by the time the action returns, and the run of P returns
\* success = true when no node of P raised.
C7_SubFlowErrorsNotPropagated == []C7_State /\ [][C7_Step]_vars

\* C7 witness: the run of P has returned success = true, both of its
\* CALL_FLOW actions got a failed result from Q, and b and e, the nodes
\* after them, were executed.
C7_Witness ==
  /\ frames[Top].st = "returned"
  /\ ctx[1].flow = "P"
  /\ ctx[1].result.success
  /\ ctx[1].errors = <<>>
  /\ ctx[1].result.executedNodes = <<"t", "a", "b", "e">>
  /\ \E k \in NodeFrames : frames[k].node = "a" /\ frames[k].c = 1 /\ SubFlowFailed(k)
  /\ \E k \in NodeFrames : frames[k].node = "b" /\ frames[k].c = 1 /\ SubFlowFailed(k)

\* C8: the visited set is scoped to one invocation: every id in a
\* context's executedNodes was dispatched by an executeNode call of that
\* very context (none is inherited from the parent, none is written by a
\* sub-flow), and a nested invocation that passes the entry checks has
\* executed its trigger, whose id the parent visited, by the time it
\* returns; a returned invocation of Q executed all of t, a, q and e.
C8_VisitedIsPerInvocation ==
  \A c \in Contexts :
    /\ \A n \in Range(ctx[c].executedNodes) : Dispatched(c, n) # {}
    /\ (ctx[c].parent # 0 /\ Returned(c) /\ ~GuardFired(c)
        /\ validateFlow(FlowOf(c)) = <<>>) =>
         /\ TriggerOf(FlowOf(c)).id \in Range(ctx[c].executedNodes)
         /\ ctx[c].flow = "Q" => ctx[c].result.executedNodes = <<"t", "a", "q", "e">>

\* C8 witness: in the returned run of P the nested invocations of Q
\* executed t, a and e, ids P had visited before the calls, and P's own
\* executedNodes has no q.
C8_Witness ==
  /\ frames[Top].st = "returned"
  /\ ctx[1].flow = "P"
  /\ Len(ctx) = 3
  /\ \A c \in {2, 3} :
       /\ ctx[c].parent = 1
       /\ ctx[c].result.executedNodes = <<"t", "a", "q", "e">>
  /\ "q" \notin Range(ctx[1].executedNodes)
  /\ {"t", "a"} \subseteq Range(ctx[1].executedNodes)

\* C9: in every context, depth = Len(flowCallStack) - 1, the last element
\* of flowCallStack is the flow being executed, and the stack without its
\* last element is the parent's stack (empty when there is no parent).
C9_DepthAndCallStack ==
  \A c \in Contexts :
    LET stack == ctx[c].flowCallStack IN
    /\ Len(stack) >= 1
    /\ ctx[c].depth = Len(stack) - 1
    /\ stack[Len(stack)] = ctx[c].flow
    /\ SubSeq(stack, 1, Len(stack) - 1) =
         IF ctx[c].parent = 0 THEN <<>> ELSE ctx[ctx[c].parent].flowCallStack

\* C9 witness: contexts nested to every depth from 0 to 5 exist, the
\* deepest with a stack of six flows.
C9_Witness ==
  /\ \A d \in 0..MAX_FLOW_DEPTH : \E c \in Contexts : ctx[c].depth = d
  /\ \E c \in Contexts : Len(ctx[c].flowCallStack) = MAX_FLOW_DEPTH + 1

\* C10: every result executeFlow has returned has success = TRUE exactly
\* when the errors list of its context is empty.
C10_SuccessIffNoErrors ==
  \A c \in Contexts :
    Returned(c) => (ctx[c].result.success <=> ResultErrors(c) = <<>>)

\* C10 witness: the run of B has returned; the nested invocation of B was
\* stopped by the loop guard (success = false, one error) and the
\* invocation of A that called it, like the top-level one, completed
\* normally (success = true, no error).
C10_Witness ==
  /\ frames[Top].st = "returned"
  /\ ctx[1].flow = "B"
  /\ ctx[1].result.success /\ ctx[1].errors = <<>>
  /\ \E c \in Contexts : GuardFired(c) /\ ~ctx[c].result.success
  /\ \E c \in Contexts :
       c # 1 /\ Returned(c) /\ ctx[c].result.success /\ ctx[c].errors = <<>>

TriggerCount(flow) ==
  Cardinality({i \in 1..Len(flow.nodes) : flow.nodes[i].type = NODE_TRIGGER})

\* The outgoing edges of the Condition nodes of a flow.
ConditionEdges(flow) ==
  {i \in 1..Len(flow.edges) :
     \E j \in 1..Len(flow.nodes) :
       /\ flow.nodes[j].type = NODE_CONDITION
       /\ flow.nodes[j].id = flow.edges[i].source}

\* A flow with no node, without exactly one Trigger node, or with a
\* Condition edge that has no sourceHandle.
Malformed(flow) ==
  \/ Len(flow.nodes) = 0
  \/ TriggerCount(flow) # 1
  \/ \E i \in ConditionEdges(flow) : flow.edges[i].sourceHandle = None

\* Context c got past the depth and loop guards of executeFlow.
PastGuards(c) == ~DepthExceeded(ctx[c]) /\ ~LoopDetected(ctx[c])

\* C11: a validation failure aborts the run before any node executes: an
\* invocation of a malformed flow that reaches the validator executes no
\* node, makes no executeNode call (hence no HTTP call, log, email or
\* sub-flow call) and returns success = false with errors equal to exactly
\* the validator's non-empty report and executedNodes empty.
C11_ValidationAborts ==
  \A c \in Contexts :
    (Malformed(FlowOf(c)) /\ PastGuards(c)) =>
      /\ NothingExecuted(c)
      /\ validateFlow(FlowOf(c)) # <<>>
      /\ Returned(c) =>
           /\ ctx[c].errors = validateFlow(FlowOf(c))
           /\ ~ctx[c].result.success
           /\ ctx[c].result.executedNodes = <<>>

\* C11 witness: the run of W has returned; its CALL_FLOW action called V,
\* whose Condition edge has no sourceHandle, and V returned the validator's
\* report without executing a node.
C11_Witness ==
  /\ frames[Top].st = "returned"
  /\ ctx[1].flow = "W"
  /\ Len(ctx) = 2
  /\ ctx[2].flow = "V" /\ Returned(2)
  /\ ctx[2].errors = <<Err("EdgeWithoutHandle", "c", None)>>
  /\ ctx[2].executedNodes = <<>>

\* C12: the validator reports every outgoing edge of a Condition node
\* whose sourceHandle is missing or is neither "yes" nor "no": an
\* invocation that reaches the validator with such an edge returns a report
\* naming the edge's Condition node, and no invocation that executed a node
\* runs a flow with such an edge.
C12_ValidatorReportsInvalidHandles ==
  \A c \in Contexts :
    LET flow == FlowOf(c)
        bad == {i \in ConditionEdges(flow) : flow.edges[i].sourceHandle \notin {YES, NO}}
    IN /\ ctx[c].executedNodes # <<>> => bad = {}
       /\ (PastGuards(c) /\ Returned(c)) =>
            \A i \in bad :
              \E e \in ErrorsOf(c) :
                e.kind = "EdgeWithoutHandle" /\ e.at = flow.edges[i].source

ValidationKinds == {"NoNodes", "NoTrigger", "ManyTriggers", "EdgeWithoutHandle"}

KindsOf(c) == {e.kind : e \in ErrorsOf(c)}

\* C13: an invocation that reaches the validator returns its issue for a
\* flow with zero nodes, with zero Trigger nodes and with more than one
\* Trigger node, and no validation issue for a well-formed flow, among
\* them flows whose Condition nodes have only "yes" or only "no" edges; so
\* every invocation that executed a node runs a flow with exactly one
\* Trigger node.
C13_ValidatorRules ==
  \A c \in Contexts :
    LET flow == FlowOf(c) IN
    /\ ctx[c].executedNodes # <<>> => TriggerCount(flow) = 1
    /\ (PastGuards(c) /\ Returned(c)) =>
         /\ Len(flow.nodes) = 0 => ctx[c].errors = <<Err("NoNodes", flow.id, None)>>
         /\ (Len(flow.nodes) > 0 /\ TriggerCount(flow) = 0) =>
              "NoTrigger" \in KindsOf(c)
         /\ TriggerCount(flow) > 1 => "ManyTriggers" \in KindsOf(c)
         /\ ~Malformed(flow) => KindsOf(c) \cap ValidationKinds = {}

\* C13 witness: the run of Y, whose Condition has a "yes" edge and no "no"
\* edge, has returned after the validator let it pass: the Condition
\* evaluated to true and all four nodes were executed.
C13_Witness ==
  /\ frames[Top].st = "returned"
  /\ ctx[1].flow = "Y"
  /\ ctx[1].result.success
  /\ ctx[1].result.executedNodes = <<"t", "c", "a", "e">>

\* The event of the flow's Trigger differs from the event of the run.
EventDiffers(c) ==
  TriggerOf(FlowOf(c)).data.event # ctx[c].webhookData.event

\* C14: at depth 0 an invocation whose Trigger's event differs from the
\* inbound event executes no node and returns exactly one error; at depth
\* > 0 the check is skipped: a nested invocation that passes the guards
\* and the validator has executed its Trigger node when it returns and
\* holds no event-mismatch error, whatever its Trigger's event.
C14_EventCheckAtDepthZeroOnly ==
  \A c \in Contexts :
    (PastGuards(c) /\ ~Malformed(FlowOf(c))) =>
      /\ (ctx[c].depth = 0 /\ EventDiffers(c)) =>
           /\ NothingExecuted(c)
           /\ Returned(c) =>
                /\ ctx[c].errors = <<Err("EventMismatch", ctx[c].flow, None)>>
                /\ ctx[c].result.executedNodes = <<>>
                /\ ~ctx[c].result.success
      /\ (ctx[c].depth > 0 /\ Returned(c)) =>
           /\ TriggerOf(FlowOf(c)).id \in Range(ctx[c].result.executedNodes)
           /\ "EventMismatch" \notin KindsOf(c)

\* C14 witness: in the returned run of P on lead.converted the nested
\* invocation of Q, whose Trigger listens to order.paid, executed its
\* nodes.
C14_Witness ==
  /\ frames[Top].st = "returned"
  /\ ctx[1].flow = "P"
  /\ \E c \in Contexts :
       /\ ctx[c].flow = "Q" /\ ctx[c].depth = 1
       /\ ctx[c].webhookData.event = EV_LEAD
       /\ EventDiffers(c)
       /\ Returned(c)
       /\ ctx[c].result.executedNodes = <<"t", "a", "q", "e">>

\* The number of entries of the errors of context c recorded at node n.
ErrorCount(c, n) ==
  Cardinality({i \in 1..Len(ctx[c].errors) : ctx[c].errors[i].at = n})

\* Frame k dispatched an Action node.
ActionFrame(k) ==
  /\ k \in NodeFrames
  /\ frames[k].ran
  /\ NodeOf(k).type = NODE_ACTION

\* The action of frame k failed: its data or type is missing or unknown, or
\* its handler raised.
ActionFailed(k) ==
  \/ ActionDataInvalid(NodeOf(k))
  \/ NodeOf(k).data.type \notin ActionTypes
  \/ frames[k].raised # None

\* C15: when the execution of an Action node fails (missing url, non-2xx
\* response, timeout or network failure of HTTP_REQUEST, missing recipient
\* of SEND_EMAIL, CALL_FLOW whose flow is not found or cannot be fetched,
\* unknown or missing action type), the context's errors holds exactly one
\* entry for that node by the time its dispatch returns, and executeNode
\* has been called for every successor of the node: each successor is in
\* executedNodes or, if the flow has no such node, is reported.
C15_ActionFailureIsRecordedOnce ==
  \A k \in NodeFrames :
    (ActionFrame(k) /\ frames[k].st = "returned") =>
      LET c == frames[k].c
          flow == FlowOf(c)
      IN /\ ErrorCount(c, frames[k].node) = IF ActionFailed(k) THEN 1 ELSE 0
         /\ \A n \in Range(getNextNodes(frames[k].node, flow)) :
              /\ \E j \in Children(k) :
                   frames[j].fn = "executeNode" /\ frames[j].node = n
              /\ IF FindNode(flow, n) # 0
                 THEN n \in Range(ctx[c].executedNodes)
                 ELSE ErrorCount(c, n) >= 1

\* C15 witness: the run of Q on its own event has returned after the HTTP
\* request of a timed out: one error, success = false, and q and e, the
\* nodes after a, were executed.
C15_Witness ==
  /\ frames[Top].st = "returned"
  /\ ctx[1].flow = "Q"
  /\ \E k \in NodeFrames : frames[k].node = "a" /\ frames[k].raised = "Timeout"
  /\ ctx[1].errors = <<Err("ActionError", "a", "Timeout")>>
  /\ ~ctx[1].result.success
  /\ ctx[1].result.executedNodes = <<"t", "a", "q", "e">>

\* C16: the validation error a CALL_FLOW action without flowId raises is
\* not swallowed by executeAction: it reaches the catch of executeFlow,
\* which records it as the run's fatal error, and executeAction records no
\* error of its own for the node.
C16_MissingFlowIdIsFatal ==
  \A k \in NodeFrames :
    (frames[k].raised = "FlowIdMissing" /\ Returned(frames[k].c)) =>
      /\ \E e \in ErrorsOf(frames[k].c) :
           e.kind = "FatalError" /\ e.cause = "FlowIdMissing"
      /\ \A e \in ErrorsOf(frames[k].c) :
           ~(e.kind = "ActionError" /\ e.at = frames[k].node)

\* Frame k dispatched a Condition node that has data.
ConditionFrame(k) ==
  /\ k \in NodeFrames
  /\ frames[k].ran
  /\ NodeOf(k).type = NODE_CONDITION
  /\ HasData(NodeOf(k))

\* The targets of the edges of node n of the flow whose handle is h.
HandleTargets(flow, n, h) ==
  {flow.edges[i].target :
     i \in {j \in 1..Len(flow.edges) :
              flow.edges[j].source = n /\ flow.edges[j].sourceHandle = h}}

\* The nodes executeNode was called for by frame k.
CalledNodes(k) ==
  {frames[j].node : j \in {i \in Children(k) : frames[i].fn = "executeNode"}}

\* C17: a Condition node whose field is missing or blank evaluates to
\* false as a mere diagnostic: no error is recorded for the node and, by
\* the time its dispatch returns, executeNode was called for the targets
\* of its "no" edges.
C17_BlankFieldIsFalseWithoutError ==
  \A k \in NodeFrames :
    (ConditionFrame(k) /\ FieldBlank(NodeOf(k).data) /\ frames[k].st = "returned") =>
      /\ ErrorCount(frames[k].c, frames[k].node) = 0
      /\ HandleTargets(FlowOf(frames[k].c), frames[k].node, NO) \subseteq CalledNodes(k)

\* The handle executeCondition chooses in frame k.
ChosenHandle(k) ==
  IF evaluateCondition(NodeOf(k).data, ctx[frames[k].c].webhookData.data)
  THEN YES ELSE NO

\* The node ids among ns that the flow has.
PresentNodes(flow, ns) == {n \in ns : FindNode(flow, n) # 0}

\* C18: once a Condition node with a configured field has fanned out,
\* executeNode has been called for the targets of all of its edges whose
\* sourceHandle is the handle of the evaluation ("yes" for true, "no" for
\* false) and for no other node; in H the nodes reachable only through the
\* other handle, and a, reachable only through the edge with the handle
\* "maybe", are never executed.
C18_BranchSelection ==
  /\ \A k \in NodeFrames :
       (ConditionFrame(k) /\ ~FieldBlank(NodeOf(k).data)
        /\ (frames[k].pc = "join" \/ frames[k].st = "returned")) =>
         CalledNodes(k) =
           PresentNodes(FlowOf(frames[k].c),
                        HandleTargets(FlowOf(frames[k].c), frames[k].node, ChosenHandle(k)))
  /\ \A c \in Contexts :
       ctx[c].flow = "H" =>
         /\ "a" \notin Range(ctx[c].executedNodes)
         /\ IF ctx[c].webhookData.data = [lead |-> ObjVal([source |-> StrVal(S_whatsapp)])]
            THEN "n" \notin Range(ctx[c].executedNodes)
            ELSE "b" \notin Range(ctx[c].executedNodes)

\* C18 witness: the run of H on a whatsapp lead has returned: the
\* Condition called executeNode for b and e, the targets of its two "yes"
\* edges, and n and a were not executed.
C18_Witness ==
  /\ frames[Top].st = "returned"
  /\ ctx[1].flow = "H"
  /\ Range(ctx[1].result.executedNodes) = {"t", "c", "b", "e"}
  /\ \E k \in NodeFrames :
       frames[k].node = "c" /\ frames[k].ran /\ CalledNodes(k) = {"b", "e"}

WebsiteLead == [lead |-> ObjVal([source |-> StrVal(S_website)])]

\* C19: when a Condition node has no edge for the handle of its
\* evaluation, the path ends silently there: its dispatch calls executeNode
\* for no node and records no error; the run of Y (a "yes" edge only) on a
\* website lead returns success = true with executedNodes = [t, c].
C19_UnmatchedBranchEndsSilently ==
  /\ \A k \in NodeFrames :
       (/\ ConditionFrame(k) /\ ~FieldBlank(NodeOf(k).data)
        /\ HandleTargets(FlowOf(frames[k].c), frames[k].node, ChosenHandle(k)) = {}) =>
         /\ frames[k].st = "returned"
         /\ CalledNodes(k) = {}
         /\ ErrorCount(frames[k].c, frames[k].node) = 0
  /\ \A c \in Contexts :
       (/\ ctx[c].flow = "Y" /\ ctx[c].webhookData.data = WebsiteLead
        /\ ctx[c].webhookData.event = EV_LEAD /\ Returned(c)) =>
         /\ ctx[c].result.executedNodes = <<"t", "c">>
         /\ ctx[c].errors = <<>>
         /\ ctx[c].result.success

\* C19 witness: the run of Y on a website lead has returned: the Condition
\* was dispatched, evaluated to false and found no "no" edge.
C19_Witness ==
  /\ frames[Top].st = "returned"
  /\ ctx[1].flow = "Y"
  /\ ctx[1].webhookData.data = WebsiteLead
  /\ ctx[1].result.success
  /\ ctx[1].result.executedNodes = <<"t", "c">>
  /\ \E k \in NodeFrames :
       /\ ConditionFrame(k) /\ frames[k].node = "c"
       /\ ChosenHandle(k) = NO /\ CalledNodes(k) = {}

\* Frame j is a call made, directly or not, on behalf of frame k.
Descendant(k, j) == Len(k) < Len(j) /\ SubSeq(j, 1, Len(k)) = k

RunningChildren(k) == {j \in Children(k) : frames[j].st = "running"}

C20_State ==
  /\ \A k \in DOMAIN frames :
       frames[k].st # "running" =>
         \A j \in DOMAIN frames : Descendant(k, j) => frames[j].st # "running"
  /\ \A k \in NodeFrames :
       frames[k].pc = "next" => Cardinality(RunningChildren(k)) <= 1
  /\ \A k \in NodeFrames :
       (ConditionFrame(k) /\ frames[k].pc = "join") =>
         Cardinality(Children(k)) =
           Len(SelectSeq(TargetEdges(FlowOf(frames[k].c), NodeOf(k),
                                     ctx[frames[k].c].webhookData.data),
                         LAMBDA e : TargetPresent(FlowOf(frames[k].c), e)))

C20_Step ==
  \A c \in Contexts : Returned(c) => ctx'[c] = ctx[c]

\* C20: the targets of a Condition's chosen branch are all started by the
\* step that fans out, and the Condition's dispatch returns only when the
\* whole sub-traversal of every branch has finished: no call made on
\* behalf of a frame that has returned is still running, a successor loop
\* has at most one call in flight, and nothing writes to the visited set
\* or the errors of a context after its executeFlow has returned.
C20_FanOutJoin == []C20_State /\ [][C20_Step]_vars

\* C20 witness: in the run of D the two "yes" branches ran concurrently:
\* x is still waiting for its HTTP response while the branch of y has
\* already executed z and e, and the Condition's dispatch is waiting at the
\* join.
C20_Witness ==
  /\ ctx[1].flow = "D"
  /\ \E k \in NodeFrames :
       /\ frames[k].node = "c" /\ frames[k].pc = "join" /\ frames[k].st = "running"
       /\ \E x, y \in Children(k) :
            /\ frames[x].node = "x" /\ frames[x].pc = "fetch" /\ frames[x].st = "running"
            /\ frames[y].node = "y" /\ frames[y].st = "returned"
  /\ {"z", "e"} \subseteq Range(ctx[1].executedNodes)
  /\ ~Returned(1)

\* The targets of the outgoing edges of node n, in the order of the flow's
\* edge list.
RECURSIVE TargetsInEdgeOrder(_, _)
TargetsInEdgeOrder(edges, n) ==
  IF edges = <<>> THEN <<>>
  ELSE (IF Head(edges).source = n /\ Head(edges).target # None
        THEN <<Head(edges).target>> ELSE <<>>)
       \o TargetsInEdgeOrder(Tail(edges), n)

\* Frame k dispatched a Trigger node.
TriggerFrame(k) ==
  /\ k \in NodeFrames
  /\ frames[k].ran
  /\ NodeOf(k).type = NODE_TRIGGER

\* The calls frame k has made so far, as the indices of their paths.
CallIndices(k) == {j[Len(j)] : j \in Children(k)}

\* C21: a Trigger node advances to its successors one at a time in the
\* order of the edge list: its i-th call is executeNode of the i-th edge's
\* target, and whenever a later call exists every earlier one has finished
\* together with everything called on its behalf (Condition fan-outs and
\* sub-flow calls included); when the Trigger's dispatch has returned it
\* has called every successor.
C21_TriggerAdvancesSequentially ==
  \A k \in NodeFrames :
    TriggerFrame(k) =>
      LET succ == TargetsInEdgeOrder(FlowOf(frames[k].c).edges, frames[k].node)
      IN /\ CallIndices(k) = 1..Cardinality(Children(k))
         /\ Cardinality(Children(k)) <= Len(succ)
         /\ frames[k].st = "returned" => Cardinality(Children(k)) = Len(succ)
         /\ \A j \in Children(k) :
              /\ frames[j].fn = "executeNode"
              /\ frames[j].node = succ[j[Len(j)]]
              /\ \A i \in Children(k) :
                   j[Len(j)] < i[Len(i)] =>
                     /\ frames[j].st = "returned"
                     /\ \A d \in DOMAIN frames :
                          Descendant(j, d) => frames[d].st = "returned"

\* C21 witness: in the run of M on a whatsapp lead the Trigger has made
\* its second call, for b, after the traversal started at c fanned out to
\* x and y, the flow Q called by x returned, and the HTTP request of y
\* completed.
C21_Witness ==
  /\ ctx[1].flow = "M"
  /\ \E k \in NodeFrames :
       /\ TriggerFrame(k) /\ frames[k].c = 1
       /\ Cardinality(Children(k)) = 2
       /\ frames[Append(k, 2)].node = "b"
       /\ frames[Append(k, 1)].node = "c"
  /\ {"c", "x", "y"} \subseteq Range(ctx[1].executedNodes)
  /\ \E c \in Contexts : ctx[c].flow = "Q" /\ ctx[c].parent = 1 /\ Returned(c)

\* C22: an End node is terminal: the dispatch of an End node returns at
\* once and calls executeNode for no node, whatever edges leave the node;
\* in M, where the End node e has an edge to k, k is never executed.
C22_EndIsTerminal ==
  /\ \A j \in NodeFrames :
       (frames[j].ran /\ NodeOf(j).type = NODE_END) =>
         /\ frames[j].st = "returned"
         /\ Children(j) = {}
         /\ ErrorCount(frames[j].c, frames[j].node) = 0
  /\ \A c \in Contexts :
       ctx[c].flow = "M" => "k" \notin Range(ctx[c].executedNodes)

\* C22 witness: the run of M has returned with its End node e executed;
\* the dispatch of e made no call although the edge e -> k exists.
C22_Witness ==
  /\ frames[Top].st = "returned"
  /\ ctx[1].flow = "M"
  /\ "e" \in Range(ctx[1].result.executedNodes)
  /\ "k" \notin Range(ctx[1].result.executedNodes)
  /\ \E i \in 1..Len(FlowOf(1).edges) :
       FlowOf(1).edges[i].source = "e" /\ FlowOf(1).edges[i].target = "k"
  /\ \E j \in NodeFrames : frames[j].node = "e" /\ frames[j].ran /\ Children(j) = {}

\* C23: a node of unknown type is marked visited, records exactly one
\* error and is not advanced past: its dispatch returns at once and calls
\* executeNode for no successor; in U the End node e, reachable only
\* through nodes that are not advanced past, is never executed.
C23_UnknownNodeTypeStops ==
  /\ \A j \in NodeFrames :
       (frames[j].ran /\ NodeOf(j).type \notin {NODE_TRIGGER, NODE_CONDITION, NODE_ACTION, NODE_END}) =>
         /\ frames[j].st = "returned"
         /\ Children(j) = {}
         /\ ErrorCount(frames[j].c, frames[j].node) = 1
         /\ frames[j].node \in Range(ctx[frames[j].c].executedNodes)
  /\ \A c \in Contexts :
       ctx[c].flow = "U" => "e" \notin Range(ctx[c].executedNodes)

\* C23 witness: the run of U on a website lead has returned: the node u of
\* type "custom" was executed and reported once, and e, its successor,
\* was not executed.
C23_Witness ==
  /\ frames[Top].st = "returned"
  /\ ctx[1].flow = "U"
  /\ "u" \in Range(ctx[1].result.executedNodes)
  /\ "e" \notin Range(ctx[1].result.executedNodes)
  /\ Err("UnknownNodeType", "u", None) \in ErrorsOf(1)
  /\ "e" \in Range(getNextNodes("u", FlowOf(1)))

EvalFrames == {k \in DOMAIN frames : frames[k].fn = "evaluateCondition"}

\* The value a payload holds under a sequence of property names; undefined
\* when a name is absent or is looked up in something that is no object.
RECURSIVE Lookup(_, _)
Lookup(value, keys) ==
  IF keys = <<>> THEN value
  ELSE IF value.k = "object" /\ Head(keys) \in DOMAIN value.f
  THEN Lookup(value.f[Head(keys)], Tail(keys))
  ELSE UndefinedVal

\* The value the field of the call of frame k resolves to.
Resolved(k) == Lookup(ObjVal(frames[k].data), frames[k].keys)

\* C24: when the field path of a Condition has a missing intermediate or
\* resolves to null or undefined, evaluateCondition returns false for
\* every operator, NOT_EQUALS included.
C24_UnresolvedFieldIsFalse ==
  \A k \in EvalFrames :
    (frames[k].st = "returned" /\ Resolved(k) \in {NullVal, UndefinedVal}) =>
      frames[k].out = FALSE

\* C24 witness: evaluateCondition has returned false for NOT_EQUALS on the
\* field lead.gone, which is null in the payload, against a literal other
\* than "null".
C24_Witness ==
  \E k \in EvalFrames :
    /\ frames[k].st = "returned"
    /\ frames[k].condition.operator = NOT_EQUALS
    /\ frames[k].keys = <<"lead", "gone">>
    /\ Resolved(k) = NullVal
    /\ frames[k].condition.value = StrVal(S_whatsapp)
    /\ frames[k].out = FALSE

\* The string form of the values of EvalPayloads and EvalLiterals.
Text(v) ==
  CASE v.k = "string" -> v.s
    [] v = NumVal(3000) -> <<"3", "0", "0", "0">>
    [] v = NumVal(5000) -> <<"5", "0", "0", "0">>
    [] OTHER -> <<"[", "o", "b", "j", "e", "c", "t", " ",
                  "O", "b", "j", "e", "c", "t", "]">>

\* The number a field value of EvalPayloads reads as: a set of one number,
\* or of none.
Reading(v) ==
  CASE v = NumVal(3000) -> {3000}
    [] v = NumVal(5000) -> {5000}
    [] v = StrVal(<<"1", "2">>) -> {12}
    [] OTHER -> {}

Substring(s, part) ==
  \E i \in 1..(Len(s) + 1) : \E j \in (i - 1)..Len(s) : SubSeq(s, i, j) = part

\* The operator table applied to the call of frame k.
OperatorTable(k) ==
  LET op == frames[k].condition.operator
      a == Text(Resolved(k))
      b == Text(frames[k].condition.value)
      x == Reading(Resolved(k))
      y == frames[k].num
  IN CASE op = EQUALS -> a = b
       [] op = NOT_EQUALS -> ~(a = b)
       [] op = CONTAINS -> Substring(a, b)
       [] op = GREATER_THAN -> \E m \in x : \E n \in y : m > n
       [] op = LESS_THAN -> \E m \in x : \E n \in y : m < n
       [] OTHER -> FALSE

\* Every call that returns on a resolved, non-null field value returns what
\* the operator table says.
ReturnsOperatorTable ==
  \A k \in EvalFrames :
    (frames[k].st = "returned" /\ Resolved(k) \notin {NullVal, UndefinedVal}) =>
      frames[k].out = OperatorTable(k)

\* C25: for a resolved non-null field value evaluateCondition matches the
\* operator table (EQUALS string-cast equality, NOT_EQUALS its negation,
\* CONTAINS string-cast substring, GREATER_THAN and LESS_THAN strict numeric
\* comparison that is false when a side is no number, unknown operator
\* false), and no input makes it throw.
C25_OperatorTableNeverThrows ==
  \A k \in EvalFrames :
    frames[k].st # "running" =>
      /\ frames[k].st = "returned"
      /\ Resolved(k) \notin {NullVal, UndefinedVal} =>
           frames[k].out = OperatorTable(k)

\* The call that throws: GREATER_THAN on lead.score where lead.score is the
\* object {"toString": 5000}.
C25_ThrowingCall ==
  \E k \in EvalFrames :
    /\ frames[k].st = "threw"
    /\ frames[k].condition.operator = GREATER_THAN
    /\ frames[k].keys = <<"lead", "score">>
    /\ Resolved(k) = ObjVal([toString |-> NumVal(5000)])

\* The CALL_FLOW actions whose target exists and is inactive, once the
\* lookup has answered.
InactiveCalls ==
  {k \in NodeFrames :
     /\ ActionFrame(k)
     /\ ~ActionDataInvalid(NodeOf(k))
     /\ NodeOf(k).data.type = ACTION_CALL_FLOW
     /\ NodeOf(k).data.config.flowId \in {f.id : f \in {g \in AllFlows : ~g.active}}
     /\ frames[k].pc # "findById"
     /\ frames[k].raised = None}

SuccessorIds(k) ==
  {e.target : e \in {d \in Range(FlowOf(frames[k].c).edges) :
                       d.source = frames[k].node}}

\* C26: a CALL_FLOW whose target exists but is inactive is a no-op: no error
\* is recorded in the parent for it, executeFlow is not re-entered (no
\* context, no frame and no log record for the target), and the traversal
\* goes on to the successors of the action.
C26_InactiveTargetIsNoOp ==
  \A k \in InactiveCalls :
    LET c == frames[k].c
        target == NodeOf(k).data.config.flowId
    IN /\ \A e \in ErrorsOf(c) : e.at # frames[k].node
       /\ \A j \in Children(k) : frames[j].fn = "executeNode"
       /\ \A c2 \in Contexts : ctx[c2].parent # 0 => ctx[c2].flow # target
       /\ \A i \in 1..Len(logs) : logs[i].flowId # target
       /\ frames[k].logId = 0
       /\ frames[k].pc \in {"next", "done"}
       /\ frames[k].st = "returned" => CalledNodes(k) = SuccessorIds(k)

\* C26 witness: the run of G, whose action a calls the inactive flow I,
\* has returned success with a, its successor b and the End node executed,
\* and nothing of I was run.
C26_Witness ==
  /\ frames[Top].st = "returned"
  /\ ctx[1].flow = "G"
  /\ Len(ctx) = 1
  /\ logs = <<>>
  /\ ctx[1].result.success
  /\ ctx[1].errors = <<>>
  /\ ctx[1].result.executedNodes = <<"t", "a", "b", "e">>
  /\ \E k \in InactiveCalls : frames[k].node = "a" /\ frames[k].st = "returned"

\* The CALL_FLOW frames that have re-entered executeFlow.
SubFlowCalls ==
  {k \in NodeFrames : \E j \in Children(k) : frames[j].fn = "executeFlow"}

\* The payload of the sub-flow called by k is the current payload with the
\* configured data laid over it.
MergedPayload(k) ==
  LET current == ctx[frames[k].c].webhookData
      extra == NodeOf(k).data.config.data
      given == ctx[frames[CalledFlow(k)].c].webhookData
  IN /\ given.id = current.id
     /\ given.event = current.event
     /\ DOMAIN given.data = (DOMAIN current.data) \cup (DOMAIN extra)
     /\ \A key \in DOMAIN given.data :
          given.data[key] = IF key \in DOMAIN extra THEN extra[key]
                            ELSE current.data[key]

\* C27: the sub-flow of a CALL_FLOW runs with {...currentPayload,
\* ...configuredExtraData}: every key of the current payload is kept unless
\* the configured data has it, and then the configured value wins; no step
\* changes the payload of a context, so the parent's conditions after the
\* call see the original values.
C27_PayloadMerge ==
  /\ [](\A k \in SubFlowCalls : MergedPayload(k))
  /\ [][\A c \in Contexts : ctx'[c].webhookData = ctx[c].webhookData]_vars

\* C27 witness: R has run on a whatsapp lead. Its first call gave K the
\* configured lead (website) and K took its yes branch; the second call
\* kept the payload's lead next to the configured campaign and K took its
\* no branch; R's own condition, evaluated after both calls, still saw
\* whatsapp and took the yes branch.
C27_Witness ==
  /\ frames[Top].st = "returned"
  /\ ctx[1].flow = "R"
  /\ Len(ctx) = 3
  /\ ctx[1].webhookData.data = [lead |-> ObjVal([source |-> StrVal(S_whatsapp)])]
  /\ ctx[2].webhookData.data = [lead |-> ObjVal([source |-> StrVal(S_website)])]
  /\ ctx[3].webhookData.data = [lead |-> ObjVal([source |-> StrVal(S_whatsapp)]),
                                campaign |-> StrVal(<<"x">>)]
  /\ ctx[2].result.executedNodes = <<"t", "c", "y">>
  /\ ctx[3].result.executedNodes = <<"t", "c", "n">>
  /\ ctx[1].result.executedNodes = <<"t", "a", "a2", "c", "b">>

\* The log record of the sub-flow call k, which has one (logId # 0).
LogOf(k) == logs[frames[k].logId]

\* The record of call k in the states of the call: RUNNING with no nodes
\* until the nested executeFlow has returned and the call has gone on, and
\* from then on either still RUNNING (the update failed) or closed with the
\* status and the nodes of the nested result.
LogFollowsCall(k) ==
  LET c == frames[k].c
      sub == frames[CalledFlow(k)].c
      open == /\ LogOf(k).status = STATUS_RUNNING
              /\ LogOf(k).executedNodes = <<>>
  IN /\ frames[k].logId \in 1..Len(logs)
     /\ LogOf(k).flowId = ctx[sub].flow
     /\ LogOf(k).webhookEventId = ctx[c].webhookData.id
     /\ IF frames[k].pc = "executeFlow" THEN open
        ELSE \/ open
             \/ /\ Returned(sub)
                /\ LogOf(k).status = IF ctx[sub].result.success
                                     THEN STATUS_SUCCESS ELSE STATUS_ERROR
                /\ LogOf(k).executedNodes = ctx[sub].result.executedNodes

\* A step changes the log only by adding a RUNNING record for a nested
\* executeFlow that has not started, or by closing the record of a call
\* whose nested executeFlow has returned.
LogStep ==
  /\ Len(logs') \in {Len(logs), Len(logs) + 1}
  /\ Len(logs') = Len(logs) + 1 =>
       /\ logs'[Len(logs')].status = STATUS_RUNNING
       /\ \E k \in DOMAIN frames' :
            /\ frames'[k].logId = Len(logs')
            /\ \E j \in DOMAIN frames' \ DOMAIN frames :
                 /\ frames'[j].caller = k
                 /\ frames'[j].fn = "executeFlow"
                 /\ frames'[j].pc = "start"
  /\ \A i \in 1..Len(logs) :
       logs'[i] # logs[i] =>
         \E k \in SubFlowCalls :
           /\ frames[k].logId = i
           /\ frames[k].pc = "executeFlow"
           /\ frames[CalledFlow(k)].st = "returned"
           /\ logs[i].status = STATUS_RUNNING

\* C28: every CALL_FLOW that re-enters executeFlow gets a log record with
\* status RUNNING before the nested executeFlow starts, and the record is
\* updated after it returns, to SUCCESS iff the nested result has success =
\* true and to ERROR otherwise, with the nested executedNodes; a failure to
\* create or to update the record does not keep the sub-flow from running
\* and adds no error to the parent.
C28_SubFlowLogLifecycle ==
  /\ [](\A k \in SubFlowCalls :
          /\ frames[k].logId # 0 => LogFollowsCall(k)
          /\ \A e \in ErrorsOf(frames[k].c) : e.at # frames[k].node)
  /\ [](\A k \in NodeFrames :
          frames[k].pc = "executeFlow" => k \in SubFlowCalls)
  /\ [][LogStep]_vars

\* C28 witness: a finished run with three sub-flow calls behind it: one
\* whose record was closed as SUCCESS, one whose record was closed as ERROR
\* with the nodes of the failed sub-flow, and one whose record could not be
\* created and whose sub-flow ran all the same.
C28_Witness ==
  /\ frames[Top].st = "returned"
  /\ \E k \in SubFlowCalls :
       /\ frames[k].logId # 0
       /\ LogOf(k).status = STATUS_SUCCESS
       /\ ctx[frames[CalledFlow(k)].c].result.success
       /\ LogOf(k).executedNodes # <<>>
  /\ \E k \in SubFlowCalls :
       /\ frames[k].logId # 0
       /\ LogOf(k).status = STATUS_ERROR
       /\ ~ctx[frames[CalledFlow(k)].c].result.success
       /\ LogOf(k).executedNodes = ctx[frames[CalledFlow(k)].c].result.executedNodes
  /\ \E k \in SubFlowCalls :
       /\ frames[k].logId = 0
       /\ Returned(frames[CalledFlow(k)].c)
       /\ ctx[frames[CalledFlow(k)].c].result.executedNodes # <<>>
       /\ \A e \in ErrorsOf(frames[k].c) : e.at # frames[k].node

IsPrefix(s, t) == Len(s) <= Len(t) /\ SubSeq(t, 1, Len(s)) = s

\* What a step may do to the lists of context c: executedNodes gets at most
\* one id at its end, the id of a node that is dispatched for the first time
\* in this step, and errors gets new entries at its end only.
AppendsOnly(c) ==
  /\ IsPrefix(ctx[c].errors, ctx'[c].errors)
  /\ \/ ctx'[c].executedNodes = ctx[c].executedNodes
     \/ \E k \in NodeFrames :
          /\ frames[k].c = c
          /\ ~frames[k].ran
          /\ frames'[k].ran
          /\ frames[k].node \notin Range(ctx[c].executedNodes)
          /\ ctx'[c].executedNodes = Append(ctx[c].executedNodes, frames[k].node)

\* The lists of context c as they stand: no id twice, the Trigger node first,
\* and the returned result lists the ids in the same order.
InInsertionOrder(c) ==
  /\ NoDuplicates(ctx[c].executedNodes)
  /\ ctx[c].executedNodes # <<>> =>
       \E i \in 1..Len(FlowOf(c).nodes) :
         /\ FlowOf(c).nodes[i].id = ctx[c].executedNodes[1]
         /\ FlowOf(c).nodes[i].type = NODE_TRIGGER
  /\ Returned(c) =>
       /\ ctx[c].result.executedNodes = ctx[c].executedNodes
       /\ ctx[c].result.success = (ctx[c].errors = <<>>)

\* C29: executedNodes and errors are append-only during a run and returned
\* in insertion order: executedNodes lists the node ids in the order in
\* which they were first marked visited (so its first element, if any, is the
\* Trigger node), errors lists the messages in the order they were recorded,
\* and no step removes or reorders an entry.
C29_AppendOnlyInsertionOrder ==
  /\ [](\A c \in Contexts : InInsertionOrder(c))
  /\ [][/\ Len(ctx') >= Len(ctx)
        /\ \A c \in Contexts : AppendsOnly(c)]_vars

\* C29 witness: the run of U has returned with the Trigger first among at
\* least three executed nodes and with at least two errors, the first of
\* them the one of a0, the first node to fail.
C29_Witness ==
  /\ frames[Top].st = "returned"
  /\ ctx[1].flow = "U"
  /\ Len(ctx[1].result.executedNodes) >= 3
  /\ ctx[1].result.executedNodes[1] = "t"
  /\ ctx[1].result.executedNodes[2] = "a0"
  /\ Len(ctx[1].errors) >= 2
  /\ ctx[1].errors[1].at = "a0"
  /\ ctx[1].errors[2].at = "a1"

InterpolateFrames ==
  {k \in DOMAIN frames : frames[k].fn = "interpolateVariables"}

\* What a piece of a template becomes: text stays, a placeholder whose
\* path holds a non-null value in the payload becomes the string form of
\* that value, any other placeholder stays as written.
Filled(piece, data) ==
  IF piece.hole /\ Lookup(ObjVal(data), piece.keys) \notin {NullVal, UndefinedVal}
  THEN Text(Lookup(ObjVal(data), piece.keys))
  ELSE Braced(piece)

RECURSIVE FilledText(_, _)
FilledText(pieces, data) ==
  IF pieces = <<>> THEN <<>>
  ELSE Filled(Head(pieces), data) \o FilledText(Tail(pieces), data)

\* C30: template substitution replaces every {{path}} placeholder whose path
\* resolves to a non-null value of the event payload by the string form of
\* that value, leaves every placeholder that does not resolve (missing key,
\* null, undefined) as written, and leaves the text outside placeholders
\* unchanged.
C30_TemplateSubstitution ==
  \A k \in InterpolateFrames :
    frames[k].st = "returned" =>
      frames[k].out = FilledText(frames[k].pieces, frames[k].data)

\* C30 witness: "Hi {{lead.source}}{{lead.missing}}" on a whatsapp lead has
\* become "Hi whatsapp{{lead.missing}}".
C30_Witness ==
  \E k \in InterpolateFrames :
    /\ frames[k].st = "returned"
    /\ Len(frames[k].pieces) = 3
    /\ ~frames[k].pieces[1].hole
    /\ frames[k].pieces[2].keys = <<"lead", "source">>
    /\ frames[k].pieces[3].keys = <<"lead", "missing">>
    /\ Lookup(ObjVal(frames[k].data), <<"lead", "source">>) = StrVal(S_whatsapp)
    /\ frames[k].out =
         frames[k].pieces[1].s \o S_whatsapp \o Braced(frames[k].pieces[3])

\* C31: a dotted path written with the data. prefix resolves to the same
\* payload value as a Condition field and as a {{...}} placeholder of an
\* HTTP_REQUEST body: both resolve under the payload's lead object (the
\* documented example uses data.lead.source and {{data.lead.name}}).
C31_PrefixedPathResolvesAlike ==
  \A k \in EvalFrames : \A j \in InterpolateFrames :
    (frames[k].st = "returned" /\ frames[j].st = "returned") =>
      LET value == Lookup(ObjVal(frames[k].data), frames[k].keys)
      IN value \notin {NullVal, UndefinedVal} =>
           /\ frames[k].out = (Text(value) = Text(frames[k].condition.value))
           /\ frames[j].out = Text(value)



\* The calls of executeFlowForWebhook, the run each has started (its
\* executeFlow call) and the log record each has created.
WebhookRuns == {k \in DOMAIN frames : frames[k].fn = "executeFlowForWebhook"}
Started(k) == \E j \in Children(k) : frames[j].fn = "executeFlow"
RunOf(k) == frames[CHOOSE j \in Children(k) : frames[j].fn = "executeFlow"].c
LogOfRun(k) == logs[frames[k].logId]

\* C32: a flow that executeFlowForWebhook runs has a log record of its own,
\* created before executeFlow starts and RUNNING with no executed nodes
\* until the run has returned; once the update of the result has succeeded
\* the record is SUCCESS exactly when the result is a success, ERROR
\* otherwise, and holds the result's executedNodes; the record of a
\* finished execution is still RUNNING only if an update has failed.
C32_TopLevelLogLifecycle ==
  \A k \in WebhookRuns :
    /\ Started(k) =>
         /\ frames[k].logId \in 1..Len(logs)
         /\ LogOfRun(k).flowId = ctx[RunOf(k)].flow
         /\ LogOfRun(k).webhookEventId = ctx[RunOf(k)].webhookData.id
         /\ \A j \in WebhookRuns : (j # k /\ Started(j)) => frames[j].logId # frames[k].logId
    /\ (Started(k) /\ frames[k].pc = "executeFlow") =>
         /\ LogOfRun(k).status = STATUS_RUNNING
         /\ LogOfRun(k).executedNodes = <<>>
    /\ (Started(k) /\ frames[k].st = "returned" /\ ~frames[k].inCatch) =>
         /\ ctx[RunOf(k)].result.returned
         /\ LogOfRun(k).status =
              (IF ctx[RunOf(k)].result.success THEN STATUS_SUCCESS ELSE STATUS_ERROR)
         /\ LogOfRun(k).executedNodes = ctx[RunOf(k)].result.executedNodes
    /\ (Started(k) /\ frames[k].st = "returned" /\ LogOfRun(k).status = STATUS_RUNNING) =>
         frames[k].inCatch

C32_Witness ==
  \E k \in WebhookRuns : \E j \in WebhookRuns :
    /\ Started(k) /\ frames[k].st = "returned" /\ ~frames[k].inCatch
    /\ LogOfRun(k).status = STATUS_SUCCESS
    /\ Len(LogOfRun(k).executedNodes) = 4
    /\ Started(j) /\ frames[j].st = "returned" /\ ~frames[j].inCatch
    /\ LogOfRun(j).status = STATUS_ERROR


\* The flows of the store that match an event, in the store's order: the
\* active ones whose first Trigger node names the event.
Matching(store, event) ==
  SelectSeq(store, LAMBDA id :
    LET flow == FlowById(id)
        triggers == {i \in 1..Len(flow.nodes) : flow.nodes[i].type = NODE_TRIGGER}
    IN /\ flow.active
       /\ triggers # {}
       /\ flow.nodes[CHOOSE i \in triggers : \A j \in triggers : i <= j].data.event = event)

Processing == {k \in DOMAIN frames : frames[k].fn = "processWebhookFlows"}
MatchingOf(k) == Matching(frames[k].store, frames[k].webhookEvent.event)
Finished(j) ==
  /\ frames[j].st # "running"
  /\ \A i \in Children(j) : frames[i].st = "returned" /\ ctx[frames[i].c].result.returned
RepositoryFailed == \E k \in DOMAIN frames : frames[k].raised = "RepositoryError"
Processed(id) == \E i \in DOMAIN events : events[i].id = id /\ events[i].processed
AllDone == \A k \in DOMAIN frames : frames[k].st # "running"

\* Once the loop of processWebhookFlows is over, every matching flow has
\* had its call of executeFlowForWebhook, in the store's order, whatever the
\* earlier ones ended with; each run starts from a fresh context of its own
\* with the saved event; the event is processed only when every matching
\* flow's execution has finished.
C33_State ==
  \A k \in Processing :
    /\ \A j \in Children(k) :
         /\ j[Len(j)] \in 1..Len(MatchingOf(k))
         /\ frames[j].flow = MatchingOf(k)[j[Len(j)]]
         /\ \A i \in Children(j) :
              /\ ctx[frames[i].c].flow = frames[j].flow
              /\ ctx[frames[i].c].parent = 0
              /\ ctx[frames[i].c].depth = 0
              /\ ctx[frames[i].c].flowCallStack = <<frames[j].flow>>
              /\ ctx[frames[i].c].webhookData = frames[k].webhookEvent
    /\ (frames[k].st = "returned" \/ Processed(frames[k].webhookEvent.id)) =>
         /\ Cardinality(Children(k)) = Len(MatchingOf(k))
         /\ \A j \in Children(k) : Finished(j)
    /\ frames[k].st = "returned" => Processed(frames[k].webhookEvent.id)
    /\ frames[k].st = "threw" => RepositoryFailed

\* A step never changes the context of a run that has returned, and it
\* changes the context of at most one run started by the service.
C33_Step ==
  /\ \A c \in DOMAIN ctx : ctx[c].result.returned => ctx'[c] = ctx[c]
  /\ \A c \in DOMAIN ctx : \A d \in DOMAIN ctx :
       (c # d /\ ctx[c].parent = 0 /\ ctx[d].parent = 0 /\ ctx'[c] # ctx[c])
         => ctx'[d] = ctx[d]

ServiceRuns == {c \in DOMAIN ctx : ctx[c].parent = 0}

\* C34: every flow processWebhookFlows passes to executeFlow is active and
\* has the event's name on its Trigger node, so no run it starts records
\* the engine's event-mismatch error.
C34_OnlyMatchingFlowsAreRun ==
  \A c \in ServiceRuns :
    /\ FlowById(ctx[c].flow).active
    /\ FindTrigger(FlowById(ctx[c].flow)) # 0
    /\ TriggerOf(FlowById(ctx[c].flow)).data.event = ctx[c].webhookData.event
    /\ \A i \in DOMAIN ctx[c].errors : ctx[c].errors[i].kind # "EventMismatch"

\* The store holds an inactive flow and a flow for another event, and the
\* runs of the matching flows have returned.
C34_Witness ==
  /\ \E i \in DOMAIN frames[Top].store : ~FlowById(frames[Top].store[i]).active
  /\ \E i \in DOMAIN frames[Top].store :
       /\ FlowById(frames[Top].store[i]).active
       /\ TriggerOf(FlowById(frames[Top].store[i])).data.event # frames[Top].webhookEvent.event
  /\ Cardinality(ServiceRuns) = 2
  /\ \A c \in ServiceRuns : ctx[c].result.returned


C35_State ==
  /\ (Background \in DOMAIN frames \/ ctx # <<>> \/ logs # <<>>) =>
       /\ frames[Top].st = "returned"
       /\ \E i \in DOMAIN events :
            /\ events[i].id = frames[Top].webhookEvent.id
            /\ events[i].event = frames[Top].webhookEvent.event
            /\ events[i].data = frames[Top].webhookEvent.data
  /\ \A i \in DOMAIN events :
       events[i].processed => frames[Background].st = "returned"
  /\ frames[Top].st = "threw" => DOMAIN frames = {Top} /\ events = <<>>
  /\ frames[Top].st = "running" => events = <<>>

C35_Step ==
  /\ frames[Top].st # "running" => frames'[Top] = frames[Top]
  /\ (frames[Top].st = "running" /\ frames'[Top].st = "returned") =>
       /\ frames'[Background].st = "running"
       /\ frames'[Background].pc = "findActive"
       /\ ctx' = <<>>
       /\ Len(events') = 1
       /\ ~events'[1].processed

\* C35: receiveWebhook saves the event with processed = false before any
\* flow is executed for it and returns at once, leaving the processing of
\* the flows running; once it has returned nothing that happens in the
\* processing changes its outcome, and it fails only when the event could
\* not be saved.
C35_ReceiveWebhookIsDetached ==
  /\ []C35_State
  /\ [][C35_Step]_vars

\* receiveWebhook has returned and the processing it started has failed
\* after executing a flow.
C35_Witness ==
  /\ frames[Top].fn = "receiveWebhook"
  /\ frames[Top].st = "returned"
  /\ Background \in DOMAIN frames
  /\ frames[Background].st = "threw"
  /\ ctx # <<>>


FixFrames == {k \in DOMAIN frames : frames[k].fn = "validateAndFixEdges"}
FromCondition(flow, edge) ==
  \E i \in DOMAIN flow.nodes :
    flow.nodes[i].id = edge.source /\ flow.nodes[i].type = NODE_CONDITION

\* C36: after validateAndFixEdges has run on a stored flow, every edge that
\* leaves a Condition node and had no handle is a "yes" or a "no" edge, so
\* that the engine's validator accepts the flow; every other edge, and
\* every other field of the fixed edges, is as before; a further run does
\* not update the flow.
C36_FixEdges ==
  \A k \in FixFrames :
    (frames[k].st = "running" /\ frames[k].runs >= 1) =>
      LET before == frames[k].first.edges
          after == frames[k].stored.edges
      IN /\ DOMAIN after = DOMAIN before
         /\ frames[k].stored.nodes = frames[k].first.nodes
         /\ \A i \in DOMAIN before :
              /\ after[i].id = before[i].id
              /\ after[i].source = before[i].source
              /\ after[i].target = before[i].target
              /\ IF FromCondition(frames[k].first, before[i]) /\ before[i].sourceHandle = None
                 THEN after[i].sourceHandle \in {YES, NO}
                 ELSE after[i].sourceHandle = before[i].sourceHandle
         /\ validateFlow(frames[k].stored) = <<>>
         /\ frames[k].runs >= 2 =>
              /\ ~frames[k].updated
              /\ frames[k].last = frames[k].stored

\* A flow with two handle-less edges of one Condition and a handle-less
\* edge of the Trigger has been fixed, and a second run has left it alone.
C36_Witness ==
  \E k \in FixFrames :
    /\ frames[k].runs = 2
    /\ frames[k].st = "running"
    /\ Len(frames[k].first.edges) = 3
    /\ \A i \in 1..2 :
         /\ frames[k].first.edges[i].source = "c"
         /\ frames[k].first.edges[i].sourceHandle = None
    /\ frames[k].first.edges[3].source = "t"
    /\ frames[k].first.edges[3].sourceHandle = None
    /\ frames[k].stored.edges[1].sourceHandle = YES
    /\ frames[k].stored.edges[2].sourceHandle = NO
    /\ frames[k].stored.edges[3].sourceHandle = None


\* The edges of a node that are live for a payload: every edge that leaves
\* a Trigger or an Action, the edges of the handle a Condition's evaluation
\* chooses ("no" when the field is missing or blank), none otherwise.
LiveHandle(node, data) ==
  IF HasData(node) /\ evaluateCondition(node.data, data) THEN YES ELSE NO
LiveTargets(flow, data, node) ==
  {flow.edges[i].target : i \in
     {i \in DOMAIN flow.edges :
        /\ flow.edges[i].source = node.id
        /\ CASE node.type \in {NODE_TRIGGER, NODE_ACTION} -> TRUE
             [] node.type = NODE_CONDITION ->
                  flow.edges[i].sourceHandle = LiveHandle(node, data)
             [] OTHER -> FALSE}}
NodeIds(flow) == {flow.nodes[i].id : i \in DOMAIN flow.nodes}
NodeById(flow, id) == flow.nodes[CHOOSE i \in DOMAIN flow.nodes : flow.nodes[i].id = id]
RECURSIVE Reachable(_, _, _)
Reachable(flow, data, seen) ==
  LET more == UNION {LiveTargets(flow, data, NodeById(flow, id)) : id \in seen}
      next == seen \cup (more \cap NodeIds(flow))
  IN IF next = seen THEN seen ELSE Reachable(flow, data, next)
ReachableFromTrigger(c) ==
  Reachable(FlowOf(c), ctx[c].webhookData.data, {TriggerOf(FlowOf(c)).id})
Traversed(c) == ctx[c].result.returned /\ ctx[c].executedNodes # <<>>

\* C37: the executed nodes of a finished run that passed the entry checks
\* are the nodes reachable from the Trigger through live edges.
C37_ExecutedNodesAreTheLiveReachable ==
  \A c \in DOMAIN ctx :
    Traversed(c) => Range(ctx[c].result.executedNodes) = ReachableFromTrigger(c)

\* The equality holds of every run in which no Condition was refused for a
\* missing or blank field.
ConditionRefused(c) ==
  \E i \in DOMAIN ctx[c].errors : ctx[c].errors[i].kind = "ConditionFieldMissing"
LiveReachableUnlessRefused ==
  \A c \in DOMAIN ctx :
    (Traversed(c) /\ ~ConditionRefused(c)) =>
      Range(ctx[c].result.executedNodes) = ReachableFromTrigger(c)


\* Two invocations of one sub-flow made by the same invocation: siblings.
Siblings(c, d) ==
  /\ c # d
  /\ ctx[c].parent # 0
  /\ ctx[c].parent = ctx[d].parent
  /\ ctx[c].flow = ctx[d].flow
HasKind(c, kind) == \E i \in DOMAIN ctx[c].errors : ctx[c].errors[i].kind = kind

C38_State ==
  \A c \in DOMAIN ctx : \A d \in DOMAIN ctx :
    Siblings(c, d) =>
      /\ ctx[c].flowCallStack = ctx[d].flowCallStack
      /\ ctx[c].depth = ctx[d].depth
      /\ (ctx[c].flow \notin Range(ctx[ctx[c].parent].flowCallStack)) =>
           ~HasKind(c, "LoopDetected")
      /\ (/\ ctx[c].result.returned
          /\ ctx[c].flow \notin Range(ctx[ctx[c].parent].flowCallStack)
          /\ ctx[c].depth < MAX_FLOW_DEPTH
          /\ validateFlow(FlowById(ctx[c].flow)) = <<>>)
           => ctx[c].executedNodes # <<>>

C38_Step ==
  \A c \in DOMAIN ctx :
    /\ ctx'[c].flowCallStack = ctx[c].flowCallStack
    /\ ctx'[c].depth = ctx[c].depth

\* C38: loop detection is per call chain: the call stack and the depth of
\* an invocation never change, whatever it calls, so two calls of the same
\* sub-flow from one invocation get the same stack and depth, neither
\* reports a loop unless the sub-flow is already in the caller's chain, and
\* both execute the sub-flow's nodes.
C38_LoopDetectionIsPerChain ==
  /\ []C38_State
  /\ [][C38_Step]_vars

\* P has called Q from its nodes a and b; both invocations have executed
\* Q's four nodes and neither has a loop error.
C38_Witness ==
  \E c \in DOMAIN ctx : \E d \in DOMAIN ctx :
    /\ Siblings(c, d)
    /\ ctx[ctx[c].parent].flow = "P"
    /\ ctx[c].flow = "Q"
    /\ ctx[c].result.returned /\ ctx[d].result.returned
    /\ Len(ctx[c].executedNodes) = 4 /\ Len(ctx[d].executedNodes) = 4
    /\ ~HasKind(c, "LoopDetected") /\ ~HasKind(d, "LoopDetected")


\* The invocations of the call chain that ends at c, c included.
RECURSIVE Chain(_)
Chain(c) == IF ctx[c].parent = 0 THEN {c} ELSE {c} \cup Chain(ctx[c].parent)
Executing(c) == ctx[c].executedNodes # <<>>
Distinct(s) == \A i \in DOMAIN s : \A j \in DOMAIN s : s[i] = s[j] => i = j

\* C39: an invocation that has executed a node has depth at most
\* MAX_FLOW_DEPTH - 1 and a call stack of pairwise distinct flow ids, one
\* per invocation of its chain; so at most MAX_FLOW_DEPTH invocations of a
\* call chain have executed nodes.
C39_ExecutingInvocationsAreBounded ==
  \A c \in DOMAIN ctx :
    Executing(c) =>
      /\ ctx[c].depth <= MAX_FLOW_DEPTH - 1
      /\ Distinct(ctx[c].flowCallStack)
      /\ Len(ctx[c].flowCallStack) = ctx[c].depth + 1
      /\ Cardinality(Chain(c)) = ctx[c].depth + 1
      /\ Cardinality({d \in Chain(c) : Executing(d)}) <= MAX_FLOW_DEPTH

\* The chain F0, ..., F4: five invocations, each of which has executed a
\* node, the last at depth MAX_FLOW_DEPTH - 1, and the call of F5 refused.
C39_Witness ==
  \E c \in DOMAIN ctx : \E d \in DOMAIN ctx :
    /\ ctx[c].depth = MAX_FLOW_DEPTH - 1
    /\ Cardinality({e \in Chain(c) : Executing(e)}) = MAX_FLOW_DEPTH
    /\ ctx[d].parent = c
    /\ HasKind(d, "DepthLimit")
    /\ ~Executing(d)


\* The HTTP_REQUEST actions whose request is over: the handler has set its
\* timer and is past await fetch(...).
HttpFinished ==
  {k \in DOMAIN frames :
     /\ frames[k].fn = "executeNode"
     /\ frames[k].timer # "none"
     /\ frames[k].pc # "fetch"}

\* C40: when an HTTP_REQUEST action has finished, with a response or with a
\* failure, its abort timer has fired or has been cleared; the failure of a
\* timeout is the timeout message, and only that one.
C40_AbortTimerNeverLeftPending ==
  \A k \in HttpFinished :
    /\ frames[k].timer \in {"fired", "cleared"}
    /\ frames[k].raised \in {None, "HttpStatus", "Timeout", "NetworkError"}
    /\ frames[k].raised = "Timeout" => frames[k].timer = "fired"

\* The timeout is told apart from every other failure, and a response,
\* whatever its status, clears the timer.
TimerSettledUnlessNetworkError ==
  \A k \in HttpFinished :
    /\ frames[k].raised \in {None, "HttpStatus", "Timeout", "NetworkError"}
    /\ frames[k].raised = "Timeout" => frames[k].timer = "fired"
    /\ frames[k].raised \in {None, "HttpStatus"} => frames[k].timer = "cleared"

====
